---------------------------- MODULE Spec2Model ----------------------------
(***************************************************************************)
(* A model of find_my_plot's data collection:                              *)
(*   src/data_collection/scrapeCDS.py    the incremental harvester          *)
(*   src/data_collection/get_mentions.py the mention extractor              *)
(*                                                                         *)
(* Text is modelled at character level: a Python str is a sequence of      *)
(* one-character strings.  The plus-minus sign is the single character PM. *)
(* Python's None is the value None.                                        *)
(***************************************************************************)
EXTENDS Integers, Sequences, FiniteSets, TLC

VARIABLES
    \* ---- preprocess_text applied to one context string (SpecText)
    tin,            \* the raw context string handed to preprocess_text
    tout,           \* the string it returned
    tcalled,        \* whether convert_latex_to_text (pandoc) was invoked
    tpc,            \* "in" before the call, "out" after it
    \* ---- process_directory on one document folder (SpecMentions)
    folder,         \* the folder: isdir, and the contents of latex, meta and out
    pd,             \* process_directory's position (pc) and local variables
    written,        \* the paths of the output files written so far, in order
    \* ---- download_pdf and get_plot_location on one record page (SpecFetch)
    page,           \* the record page of the document and what its servers answer
    pdfOnDisk,      \* whether the PDF's local file exists
    calls,          \* what each call of download_pdf so far did and returned
    plot,           \* what get_plot_location returned for the page, once called
    \* ---- write_to_db over a collection, run after run (SpecCrawl)
    args,           \* the arguments of the run: start, depth, run_nougat, overwrite
    cw,             \* write_to_db's position (pc) and loop variables
    disk,           \* the output directory: what each document folder holds
    fail_file,      \* the lines of failed_list.txt
    doc,            \* the local variables of the loop body for the current document
    offsets,        \* the record offsets (jrec) of the listing pages requested in this run
    \* ---- process_directories over a data directory, pass after pass (SpecDirs)
    pds,            \* process_directories' position (pc), arguments and loop variables
    tree            \* the entries of the data directory, in os.listdir order

\* None and NoFile are one-element sequences no text equals
None == <<"<None>">>
PM == "+-"

(***************************************************************************)
(* Python str operations.                                                  *)
(***************************************************************************)
\* A character of a text is a string of the model.  The characters TLA+ can write
\* stand for themselves; a character it cannot write in a string is the string U+XXXX
\* of its code point.
\*
\* the characters c with c.isspace(), which str.split() and str.strip() cut at
Whitespace ==
    {"\t", "\n", "", "\f", "\r", "", "", "", "", " ", "", " ", " ", "U+2000", "U+2001",
     "U+2002", "U+2003", "U+2004", "U+2005", "U+2006", "U+2007", "U+2008", "U+2009", "U+200A",
     "U+2028", "U+2029", "U+202F", "U+205F", "U+3000"}

\* the digits 0 to 9 of the patterns' classes [0-9]
AsciiDigits == {"0", "1", "2", "3", "4", "5", "6", "7", "8", "9"}

\* the decimal digits of Unicode (category Nd): every run holds the ten digits of one
\* script, in the order of their values 0 to 9.  \d of a str pattern matches them
\* all and int() converts them all.
DigitRuns ==
    << <<"0", "1", "2", "3", "4", "5", "6", "7", "8", "9">>,
       <<"U+0660", "U+0661", "U+0662", "U+0663", "U+0664", "U+0665", "U+0666", "U+0667", "U+0668", "U+0669">>,
       <<"۰", "۱", "۲", "۳", "۴", "۵", "۶", "۷", "۸", "۹">>,
       <<"߀", "߁", "߂", "߃", "߄", "߅", "߆", "߇", "߈", "߉">>,
       <<"U+0966", "U+0967", "U+0968", "U+0969", "U+096A", "U+096B", "U+096C", "U+096D", "U+096E", "U+096F">>,
       <<"০", "১", "২", "৩", "৪", "৫", "৬", "৭", "৮", "৯">>,
       <<"U+0A66", "U+0A67", "U+0A68", "U+0A69", "U+0A6A", "U+0A6B", "U+0A6C", "U+0A6D", "U+0A6E", "U+0A6F">>,
       <<"૦", "૧", "૨", "૩", "૪", "૫", "૬", "૭", "૮", "૯">>,
       <<"U+0B66", "U+0B67", "U+0B68", "U+0B69", "U+0B6A", "U+0B6B", "U+0B6C", "U+0B6D", "U+0B6E", "U+0B6F">>,
       <<"௦", "௧", "௨", "௩", "௪", "௫", "௬", "௭", "௮", "௯">>,
       <<"U+0C66", "U+0C67", "U+0C68", "U+0C69", "U+0C6A", "U+0C6B", "U+0C6C", "U+0C6D", "U+0C6E", "U+0C6F">>,
       <<"೦", "೧", "೨", "೩", "೪", "೫", "೬", "೭", "೮", "೯">>,
       <<"U+0D66", "U+0D67", "U+0D68", "U+0D69", "U+0D6A", "U+0D6B", "U+0D6C", "U+0D6D", "U+0D6E", "U+0D6F">>,
       <<"෦", "෧", "෨", "෩", "෪", "෫", "෬", "෭", "෮", "෯">>,
       <<"U+0E50", "U+0E51", "U+0E52", "U+0E53", "U+0E54", "U+0E55", "U+0E56", "U+0E57", "U+0E58", "U+0E59">>,
       <<"໐", "໑", "໒", "໓", "໔", "໕", "໖", "໗", "໘", "໙">>,
       <<"U+0F20", "U+0F21", "U+0F22", "U+0F23", "U+0F24", "U+0F25", "U+0F26", "U+0F27", "U+0F28", "U+0F29">>,
       <<"U+1040", "U+1041", "U+1042", "U+1043", "U+1044", "U+1045", "U+1046", "U+1047", "U+1048", "U+1049">>,
       <<"႐", "႑", "႒", "႓", "႔", "႕", "႖", "႗", "႘", "႙">>,
       <<"០", "១", "២", "៣", "៤", "៥", "៦", "៧", "៨", "៩">>,
       <<"U+1810", "U+1811", "U+1812", "U+1813", "U+1814", "U+1815", "U+1816", "U+1817", "U+1818", "U+1819">>,
       <<"U+1946", "U+1947", "U+1948", "U+1949", "U+194A", "U+194B", "U+194C", "U+194D", "U+194E", "U+194F">>,
       <<"᧐", "᧑", "᧒", "᧓", "᧔", "᧕", "᧖", "᧗", "᧘", "᧙">>,
       <<"᪀", "᪁", "᪂", "᪃", "᪄", "᪅", "᪆", "᪇", "᪈", "᪉">>,
       <<"᪐", "᪑", "᪒", "᪓", "᪔", "᪕", "᪖", "᪗", "᪘", "᪙">>,
       <<"U+1B50", "U+1B51", "U+1B52", "U+1B53", "U+1B54", "U+1B55", "U+1B56", "U+1B57", "U+1B58", "U+1B59">>,
       <<"᮰", "᮱", "᮲", "᮳", "᮴", "᮵", "᮶", "᮷", "᮸", "᮹">>,
       <<"U+1C40", "U+1C41", "U+1C42", "U+1C43", "U+1C44", "U+1C45", "U+1C46", "U+1C47", "U+1C48", "U+1C49">>,
       <<"U+1C50", "U+1C51", "U+1C52", "U+1C53", "U+1C54", "U+1C55", "U+1C56", "U+1C57", "U+1C58", "U+1C59">>,
       <<"U+A620", "U+A621", "U+A622", "U+A623", "U+A624", "U+A625", "U+A626", "U+A627", "U+A628", "U+A629">>,
       <<"꣐", "꣑", "꣒", "꣓", "꣔", "꣕", "꣖", "꣗", "꣘", "꣙">>,
       <<"U+A900", "U+A901", "U+A902", "U+A903", "U+A904", "U+A905", "U+A906", "U+A907", "U+A908", "U+A909">>,
       <<"꧐", "꧑", "꧒", "꧓", "꧔", "꧕", "꧖", "꧗", "꧘", "꧙">>,
       <<"꧰", "꧱", "꧲", "꧳", "꧴", "꧵", "꧶", "꧷", "꧸", "꧹">>,
       <<"U+AA50", "U+AA51", "U+AA52", "U+AA53", "U+AA54", "U+AA55", "U+AA56", "U+AA57", "U+AA58", "U+AA59">>,
       <<"꯰", "꯱", "꯲", "꯳", "꯴", "꯵", "꯶", "꯷", "꯸", "꯹">>,
       <<"U+FF10", "U+FF11", "U+FF12", "U+FF13", "U+FF14", "U+FF15", "U+FF16", "U+FF17", "U+FF18", "U+FF19">>,
       <<"U+104A0", "U+104A1", "U+104A2", "U+104A3", "U+104A4", "U+104A5", "U+104A6", "U+104A7", "U+104A8", "U+104A9">>,
       <<"U+10D30", "U+10D31", "U+10D32", "U+10D33", "U+10D34", "U+10D35", "U+10D36", "U+10D37", "U+10D38", "U+10D39">>,
       <<"U+11066", "U+11067", "U+11068", "U+11069", "U+1106A", "U+1106B", "U+1106C", "U+1106D", "U+1106E", "U+1106F">>,
       <<"U+110F0", "U+110F1", "U+110F2", "U+110F3", "U+110F4", "U+110F5", "U+110F6", "U+110F7", "U+110F8", "U+110F9">>,
       <<"U+11136", "U+11137", "U+11138", "U+11139", "U+1113A", "U+1113B", "U+1113C", "U+1113D", "U+1113E", "U+1113F">>,
       <<"U+111D0", "U+111D1", "U+111D2", "U+111D3", "U+111D4", "U+111D5", "U+111D6", "U+111D7", "U+111D8", "U+111D9">>,
       <<"U+112F0", "U+112F1", "U+112F2", "U+112F3", "U+112F4", "U+112F5", "U+112F6", "U+112F7", "U+112F8", "U+112F9">>,
       <<"U+11450", "U+11451", "U+11452", "U+11453", "U+11454", "U+11455", "U+11456", "U+11457", "U+11458", "U+11459">>,
       <<"U+114D0", "U+114D1", "U+114D2", "U+114D3", "U+114D4", "U+114D5", "U+114D6", "U+114D7", "U+114D8", "U+114D9">>,
       <<"U+11650", "U+11651", "U+11652", "U+11653", "U+11654", "U+11655", "U+11656", "U+11657", "U+11658", "U+11659">>,
       <<"U+116C0", "U+116C1", "U+116C2", "U+116C3", "U+116C4", "U+116C5", "U+116C6", "U+116C7", "U+116C8", "U+116C9">>,
       <<"U+11730", "U+11731", "U+11732", "U+11733", "U+11734", "U+11735", "U+11736", "U+11737", "U+11738", "U+11739">>,
       <<"U+118E0", "U+118E1", "U+118E2", "U+118E3", "U+118E4", "U+118E5", "U+118E6", "U+118E7", "U+118E8", "U+118E9">>,
       <<"U+11950", "U+11951", "U+11952", "U+11953", "U+11954", "U+11955", "U+11956", "U+11957", "U+11958", "U+11959">>,
       <<"U+11C50", "U+11C51", "U+11C52", "U+11C53", "U+11C54", "U+11C55", "U+11C56", "U+11C57", "U+11C58", "U+11C59">>,
       <<"U+11D50", "U+11D51", "U+11D52", "U+11D53", "U+11D54", "U+11D55", "U+11D56", "U+11D57", "U+11D58", "U+11D59">>,
       <<"U+11DA0", "U+11DA1", "U+11DA2", "U+11DA3", "U+11DA4", "U+11DA5", "U+11DA6", "U+11DA7", "U+11DA8", "U+11DA9">>,
       <<"U+16A60", "U+16A61", "U+16A62", "U+16A63", "U+16A64", "U+16A65", "U+16A66", "U+16A67", "U+16A68", "U+16A69">>,
       <<"U+16AC0", "U+16AC1", "U+16AC2", "U+16AC3", "U+16AC4", "U+16AC5", "U+16AC6", "U+16AC7", "U+16AC8", "U+16AC9">>,
       <<"U+16B50", "U+16B51", "U+16B52", "U+16B53", "U+16B54", "U+16B55", "U+16B56", "U+16B57", "U+16B58", "U+16B59">>,
       <<"U+1D7CE", "U+1D7CF", "U+1D7D0", "U+1D7D1", "U+1D7D2", "U+1D7D3", "U+1D7D4", "U+1D7D5", "U+1D7D6", "U+1D7D7">>,
       <<"U+1D7D8", "U+1D7D9", "U+1D7DA", "U+1D7DB", "U+1D7DC", "U+1D7DD", "U+1D7DE", "U+1D7DF", "U+1D7E0", "U+1D7E1">>,
       <<"U+1D7E2", "U+1D7E3", "U+1D7E4", "U+1D7E5", "U+1D7E6", "U+1D7E7", "U+1D7E8", "U+1D7E9", "U+1D7EA", "U+1D7EB">>,
       <<"U+1D7EC", "U+1D7ED", "U+1D7EE", "U+1D7EF", "U+1D7F0", "U+1D7F1", "U+1D7F2", "U+1D7F3", "U+1D7F4", "U+1D7F5">>,
       <<"U+1D7F6", "U+1D7F7", "U+1D7F8", "U+1D7F9", "U+1D7FA", "U+1D7FB", "U+1D7FC", "U+1D7FD", "U+1D7FE", "U+1D7FF">>,
       <<"U+1E140", "U+1E141", "U+1E142", "U+1E143", "U+1E144", "U+1E145", "U+1E146", "U+1E147", "U+1E148", "U+1E149">>,
       <<"U+1E2F0", "U+1E2F1", "U+1E2F2", "U+1E2F3", "U+1E2F4", "U+1E2F5", "U+1E2F6", "U+1E2F7", "U+1E2F8", "U+1E2F9">>,
       <<"U+1E950", "U+1E951", "U+1E952", "U+1E953", "U+1E954", "U+1E955", "U+1E956", "U+1E957", "U+1E958", "U+1E959">>,
       <<"U+1FBF0", "U+1FBF1", "U+1FBF2", "U+1FBF3", "U+1FBF4", "U+1FBF5", "U+1FBF6", "U+1FBF7", "U+1FBF8", "U+1FBF9">> >>

\* what \d of a str pattern matches: the characters of DigitRuns, as a set
Digits ==
    {"0", "1", "2", "3", "4", "5", "6", "7", "8", "9",
     "U+0660", "U+0661", "U+0662", "U+0663", "U+0664", "U+0665", "U+0666", "U+0667", "U+0668", "U+0669",
     "۰", "۱", "۲", "۳", "۴", "۵", "۶", "۷", "۸", "۹",
     "߀", "߁", "߂", "߃", "߄", "߅", "߆", "߇", "߈", "߉",
     "U+0966", "U+0967", "U+0968", "U+0969", "U+096A", "U+096B", "U+096C", "U+096D", "U+096E", "U+096F",
     "০", "১", "২", "৩", "৪", "৫", "৬", "৭", "৮", "৯",
     "U+0A66", "U+0A67", "U+0A68", "U+0A69", "U+0A6A", "U+0A6B", "U+0A6C", "U+0A6D", "U+0A6E", "U+0A6F",
     "૦", "૧", "૨", "૩", "૪", "૫", "૬", "૭", "૮", "૯",
     "U+0B66", "U+0B67", "U+0B68", "U+0B69", "U+0B6A", "U+0B6B", "U+0B6C", "U+0B6D", "U+0B6E", "U+0B6F",
     "௦", "௧", "௨", "௩", "௪", "௫", "௬", "௭", "௮", "௯",
     "U+0C66", "U+0C67", "U+0C68", "U+0C69", "U+0C6A", "U+0C6B", "U+0C6C", "U+0C6D", "U+0C6E", "U+0C6F",
     "೦", "೧", "೨", "೩", "೪", "೫", "೬", "೭", "೮", "೯",
     "U+0D66", "U+0D67", "U+0D68", "U+0D69", "U+0D6A", "U+0D6B", "U+0D6C", "U+0D6D", "U+0D6E", "U+0D6F",
     "෦", "෧", "෨", "෩", "෪", "෫", "෬", "෭", "෮", "෯",
     "U+0E50", "U+0E51", "U+0E52", "U+0E53", "U+0E54", "U+0E55", "U+0E56", "U+0E57", "U+0E58", "U+0E59",
     "໐", "໑", "໒", "໓", "໔", "໕", "໖", "໗", "໘", "໙",
     "U+0F20", "U+0F21", "U+0F22", "U+0F23", "U+0F24", "U+0F25", "U+0F26", "U+0F27", "U+0F28", "U+0F29",
     "U+1040", "U+1041", "U+1042", "U+1043", "U+1044", "U+1045", "U+1046", "U+1047", "U+1048", "U+1049",
     "႐", "႑", "႒", "႓", "႔", "႕", "႖", "႗", "႘", "႙",
     "០", "១", "២", "៣", "៤", "៥", "៦", "៧", "៨", "៩",
     "U+1810", "U+1811", "U+1812", "U+1813", "U+1814", "U+1815", "U+1816", "U+1817", "U+1818", "U+1819",
     "U+1946", "U+1947", "U+1948", "U+1949", "U+194A", "U+194B", "U+194C", "U+194D", "U+194E", "U+194F",
     "᧐", "᧑", "᧒", "᧓", "᧔", "᧕", "᧖", "᧗", "᧘", "᧙",
     "᪀", "᪁", "᪂", "᪃", "᪄", "᪅", "᪆", "᪇", "᪈", "᪉",
     "᪐", "᪑", "᪒", "᪓", "᪔", "᪕", "᪖", "᪗", "᪘", "᪙",
     "U+1B50", "U+1B51", "U+1B52", "U+1B53", "U+1B54", "U+1B55", "U+1B56", "U+1B57", "U+1B58", "U+1B59",
     "᮰", "᮱", "᮲", "᮳", "᮴", "᮵", "᮶", "᮷", "᮸", "᮹",
     "U+1C40", "U+1C41", "U+1C42", "U+1C43", "U+1C44", "U+1C45", "U+1C46", "U+1C47", "U+1C48", "U+1C49",
     "U+1C50", "U+1C51", "U+1C52", "U+1C53", "U+1C54", "U+1C55", "U+1C56", "U+1C57", "U+1C58", "U+1C59",
     "U+A620", "U+A621", "U+A622", "U+A623", "U+A624", "U+A625", "U+A626", "U+A627", "U+A628", "U+A629",
     "꣐", "꣑", "꣒", "꣓", "꣔", "꣕", "꣖", "꣗", "꣘", "꣙",
     "U+A900", "U+A901", "U+A902", "U+A903", "U+A904", "U+A905", "U+A906", "U+A907", "U+A908", "U+A909",
     "꧐", "꧑", "꧒", "꧓", "꧔", "꧕", "꧖", "꧗", "꧘", "꧙",
     "꧰", "꧱", "꧲", "꧳", "꧴", "꧵", "꧶", "꧷", "꧸", "꧹",
     "U+AA50", "U+AA51", "U+AA52", "U+AA53", "U+AA54", "U+AA55", "U+AA56", "U+AA57", "U+AA58", "U+AA59",
     "꯰", "꯱", "꯲", "꯳", "꯴", "꯵", "꯶", "꯷", "꯸", "꯹",
     "U+FF10", "U+FF11", "U+FF12", "U+FF13", "U+FF14", "U+FF15", "U+FF16", "U+FF17", "U+FF18", "U+FF19",
     "U+104A0", "U+104A1", "U+104A2", "U+104A3", "U+104A4", "U+104A5", "U+104A6", "U+104A7", "U+104A8", "U+104A9",
     "U+10D30", "U+10D31", "U+10D32", "U+10D33", "U+10D34", "U+10D35", "U+10D36", "U+10D37", "U+10D38", "U+10D39",
     "U+11066", "U+11067", "U+11068", "U+11069", "U+1106A", "U+1106B", "U+1106C", "U+1106D", "U+1106E", "U+1106F",
     "U+110F0", "U+110F1", "U+110F2", "U+110F3", "U+110F4", "U+110F5", "U+110F6", "U+110F7", "U+110F8", "U+110F9",
     "U+11136", "U+11137", "U+11138", "U+11139", "U+1113A", "U+1113B", "U+1113C", "U+1113D", "U+1113E", "U+1113F",
     "U+111D0", "U+111D1", "U+111D2", "U+111D3", "U+111D4", "U+111D5", "U+111D6", "U+111D7", "U+111D8", "U+111D9",
     "U+112F0", "U+112F1", "U+112F2", "U+112F3", "U+112F4", "U+112F5", "U+112F6", "U+112F7", "U+112F8", "U+112F9",
     "U+11450", "U+11451", "U+11452", "U+11453", "U+11454", "U+11455", "U+11456", "U+11457", "U+11458", "U+11459",
     "U+114D0", "U+114D1", "U+114D2", "U+114D3", "U+114D4", "U+114D5", "U+114D6", "U+114D7", "U+114D8", "U+114D9",
     "U+11650", "U+11651", "U+11652", "U+11653", "U+11654", "U+11655", "U+11656", "U+11657", "U+11658", "U+11659",
     "U+116C0", "U+116C1", "U+116C2", "U+116C3", "U+116C4", "U+116C5", "U+116C6", "U+116C7", "U+116C8", "U+116C9",
     "U+11730", "U+11731", "U+11732", "U+11733", "U+11734", "U+11735", "U+11736", "U+11737", "U+11738", "U+11739",
     "U+118E0", "U+118E1", "U+118E2", "U+118E3", "U+118E4", "U+118E5", "U+118E6", "U+118E7", "U+118E8", "U+118E9",
     "U+11950", "U+11951", "U+11952", "U+11953", "U+11954", "U+11955", "U+11956", "U+11957", "U+11958", "U+11959",
     "U+11C50", "U+11C51", "U+11C52", "U+11C53", "U+11C54", "U+11C55", "U+11C56", "U+11C57", "U+11C58", "U+11C59",
     "U+11D50", "U+11D51", "U+11D52", "U+11D53", "U+11D54", "U+11D55", "U+11D56", "U+11D57", "U+11D58", "U+11D59",
     "U+11DA0", "U+11DA1", "U+11DA2", "U+11DA3", "U+11DA4", "U+11DA5", "U+11DA6", "U+11DA7", "U+11DA8", "U+11DA9",
     "U+16A60", "U+16A61", "U+16A62", "U+16A63", "U+16A64", "U+16A65", "U+16A66", "U+16A67", "U+16A68", "U+16A69",
     "U+16AC0", "U+16AC1", "U+16AC2", "U+16AC3", "U+16AC4", "U+16AC5", "U+16AC6", "U+16AC7", "U+16AC8", "U+16AC9",
     "U+16B50", "U+16B51", "U+16B52", "U+16B53", "U+16B54", "U+16B55", "U+16B56", "U+16B57", "U+16B58", "U+16B59",
     "U+1D7CE", "U+1D7CF", "U+1D7D0", "U+1D7D1", "U+1D7D2", "U+1D7D3", "U+1D7D4", "U+1D7D5", "U+1D7D6", "U+1D7D7",
     "U+1D7D8", "U+1D7D9", "U+1D7DA", "U+1D7DB", "U+1D7DC", "U+1D7DD", "U+1D7DE", "U+1D7DF", "U+1D7E0", "U+1D7E1",
     "U+1D7E2", "U+1D7E3", "U+1D7E4", "U+1D7E5", "U+1D7E6", "U+1D7E7", "U+1D7E8", "U+1D7E9", "U+1D7EA", "U+1D7EB",
     "U+1D7EC", "U+1D7ED", "U+1D7EE", "U+1D7EF", "U+1D7F0", "U+1D7F1", "U+1D7F2", "U+1D7F3", "U+1D7F4", "U+1D7F5",
     "U+1D7F6", "U+1D7F7", "U+1D7F8", "U+1D7F9", "U+1D7FA", "U+1D7FB", "U+1D7FC", "U+1D7FD", "U+1D7FE", "U+1D7FF",
     "U+1E140", "U+1E141", "U+1E142", "U+1E143", "U+1E144", "U+1E145", "U+1E146", "U+1E147", "U+1E148", "U+1E149",
     "U+1E2F0", "U+1E2F1", "U+1E2F2", "U+1E2F3", "U+1E2F4", "U+1E2F5", "U+1E2F6", "U+1E2F7", "U+1E2F8", "U+1E2F9",
     "U+1E950", "U+1E951", "U+1E952", "U+1E953", "U+1E954", "U+1E955", "U+1E956", "U+1E957", "U+1E958", "U+1E959",
     "U+1FBF0", "U+1FBF1", "U+1FBF2", "U+1FBF3", "U+1FBF4", "U+1FBF5", "U+1FBF6", "U+1FBF7", "U+1FBF8", "U+1FBF9"}

\* s[i:i+len(pat)] == pat, for a 1-based i
StartsAt(s, pat, i) ==
    /\ i >= 1
    /\ i + Len(pat) - 1 <= Len(s)
    /\ \A k \in 1..Len(pat) : s[i + k - 1] = pat[k]

\* the least element of a non-empty set of integers
Least(S) == CHOOSE x \in S : \A y \in S : x <= y

\* the least j >= i where pat occurs in s, 0 when there is none
FindFrom(s, pat, i) ==
    LET at == { j \in i..(Len(s) - Len(pat) + 1) : s[j] = pat[1] /\ StartsAt(s, pat, j) }
    IN  IF at = {} THEN 0 ELSE Least(at)

\* pat in s
str_contains(s, pat) == FindFrom(s, pat, 1) # 0

\* s.startswith(pat)
str_startswith(s, pat) == StartsAt(s, pat, 1)

\* s.endswith(pat)
str_endswith(s, pat) == Len(pat) <= Len(s) /\ StartsAt(s, pat, Len(s) - Len(pat) + 1)

RECURSIVE ReplaceFrom(_, _, _, _)
ReplaceFrom(s, old, new, i) ==
    LET j == FindFrom(s, old, i)
    IN  IF j = 0 THEN SubSeq(s, i, Len(s))
        ELSE SubSeq(s, i, j - 1) \o new \o ReplaceFrom(s, old, new, j + Len(old))

\* s.replace(old, new): every non-overlapping occurrence, left to right
str_replace(s, old, new) == ReplaceFrom(s, old, new, 1)

RECURSIVE SplitFrom(_, _, _)
SplitFrom(s, sep, i) ==
    LET j == FindFrom(s, sep, i)
    IN  IF j = 0 THEN <<SubSeq(s, i, Len(s))>>
        ELSE <<SubSeq(s, i, j - 1)>> \o SplitFrom(s, sep, j + Len(sep))

\* s.split(sep): the pieces between the occurrences of sep (empty pieces kept)
str_split(s, sep) == SplitFrom(s, sep, 1)

RECURSIVE SplitWsFrom(_, _)
SplitWsFrom(s, i) ==
    LET word == { j \in i..Len(s) : s[j] \notin Whitespace }
        b == Least(word)
        space == { j \in b..Len(s) : s[j] \in Whitespace }
        e == IF space = {} THEN Len(s) + 1 ELSE Least(space)
    IN  IF word = {} THEN <<>>
        ELSE <<SubSeq(s, b, e - 1)>> \o SplitWsFrom(s, e)

\* s.split(): the maximal runs of non-whitespace characters
str_split_ws(s) == SplitWsFrom(s, 1)

\* s.strip(): from the first to the last character that is not whitespace
str_strip(s) ==
    LET word == { j \in 1..Len(s) : s[j] \notin Whitespace }
        fromEnd == { Len(s) - j : j \in word }
    IN  IF word = {} THEN <<>>
        ELSE SubSeq(s, Least(word), Len(s) - Least(fromEnd))

\* max(xs, key=len): the first element of greatest length (xs not empty)
max_by_len(xs) ==
    xs[CHOOSE i \in 1..Len(xs) :
          /\ \A j \in 1..Len(xs) : Len(xs[j]) <= Len(xs[i])
          /\ \A j \in 1..(i - 1) : Len(xs[j]) < Len(xs[i])]

RECURSIVE Concat(_)
\* "".join(parts)
Concat(parts) == IF parts = <<>> THEN <<>> ELSE Head(parts) \o Concat(Tail(parts))

(***************************************************************************)
(* get_mentions.py: preprocess_text and the external converter.            *)
(***************************************************************************)
BACKSLASH == <<"\\">>
BEGIN_ENV == <<"\\", "b", "e", "g", "i", "n">>
PM_MACRO == <<"\\", "p", "m">>

\* the dict `replacements`, in insertion order
replacements ==
    << <<  <<"\\", ")">>,                       <<")">>  >>,
       <<  <<"\\", "(">>,                       <<"(">>  >>,
       <<  <<"\\", "r", "m", " ">>,             <<>>  >>,
       <<  <<"\\", "c", "a", "l", " ">>,        <<>>  >>,
       <<  PM_MACRO,                            <<PM>>  >>,
       <<  <<"\\", ",">>,                       <<>>  >>,
       <<  <<"\\", ";">>,                       <<>>  >>,
       <<  <<"\\", "q", "u", "a", "d">>,        <<" ", " ">>  >>,
       <<  <<"\\", "q", "q", "u", "a", "d">>,   <<" ", " ", " ", " ">>  >>,
       <<  <<"\n">>,                            <<" ">>  >>,
       <<  <<"\r", "\n">>,                      <<" ">>  >> >>

RECURSIVE ApplyReplacements(_, _)
\* for old, new in replacements.items(): text = text.replace(old, new)
ApplyReplacements(text, k) ==
    IF k > Len(replacements) THEN text
    ELSE ApplyReplacements(str_replace(text, replacements[k][1], replacements[k][2]), k + 1)

\* What one invocation of pandoc does.  The converter is external: a call either
\* yields plain text (modelled as the input without its backslashes, ended by a
\* line break), raises RuntimeError, or raises another exception (OSError when no
\* pandoc is installed).
PandocOutcomes == {"plain", "RuntimeError", "OSError"}

\* what stands for the result of a call that raised an exception it does not catch
Raised == <<"<raised>">>

\* convert_latex_to_text: pandoc's output, or the input itself after a RuntimeError;
\* any other exception is not caught
convert_latex_to_text(latex_content, conv) ==
    IF conv = "plain"
    THEN SelectSeq(latex_content, LAMBDA c : c # "\\") \o <<"\n">>
    ELSE IF conv = "RuntimeError" THEN latex_content
    ELSE Raised

\* a variant that tests for a remaining backslash before the \begin check
preprocess_text_convert_first(text, conv) ==
    LET t1 == ApplyReplacements(text, 1)
        called == str_contains(t1, BACKSLASH)
        c == convert_latex_to_text(t1, conv)
        t2 == IF called
              THEN IF c = Raised THEN Raised ELSE str_replace(c, <<"\n">>, <<" ">>)
              ELSE t1
        t3 == IF t2 = Raised THEN Raised
              ELSE IF str_contains(t1, BEGIN_ENV) THEN <<>> ELSE t2
    IN  [text |-> t3, called |-> called, raised |-> t3 = Raised]

\* preprocess_text(text): the returned text, whether the converter was invoked and
\* whether its exception went through; conv is what the converter does if it is invoked
preprocess_text(text, conv) ==
    LET t1 == ApplyReplacements(text, 1)
        t2 == IF str_contains(t1, BEGIN_ENV) THEN <<>> ELSE t1
        called == str_contains(t2, BACKSLASH)
        c == convert_latex_to_text(t2, conv)
        t3 == IF called
              THEN IF c = Raised THEN Raised ELSE str_replace(c, <<"\n">>, <<" ">>)
              ELSE t2
    IN  [text |-> t3, called |-> called, raised |-> t3 = Raised]

\* whether preprocess_text(text) invokes the converter
invokes_converter(text) == preprocess_text(text, "plain").called

(***************************************************************************)
(* get_mentions.py: the citation patterns, re.finditer and snipSentence.   *)
(***************************************************************************)
figIdentifier == <<"F", "i", "g", "u", "r", "e", " ">>
tableIdentifier == <<"T", "a", "b", "l", "e", " ">>
HLINE == <<"\\", "h", "l", "i", "n", "e">>
SENTENCE_SEP == <<".", " ">>

\* a failed match; a match is [start, stop, index]: the 1-based position of its
\* first character, the position after its last one, and its first group that is
\* not None
NoMatch == [start |-> 0, stop |-> 0, index |-> <<>>]

\* the number of consecutive characters of the set cs in s from position i on
CharRun(s, cs, i) ==
    LET other == { j \in i..Len(s) : s[j] \notin cs }
    IN  IF i > Len(s) THEN 0
        ELSE IF other = {} THEN Len(s) + 1 - i
        ELSE Least(other) - i

\* figPattern = [Ff]ig. (\d+)|[Ff]igures* (\d+), matched at position i
figPattern(line, i) ==
    LET n1 == CharRun(line, Digits, i + 5)
        ns == CharRun(line, {"s"}, i + 6)
        n2 == CharRun(line, Digits, i + 7 + ns)
        first == i <= Len(line) /\ line[i] \in {"F", "f"}
        alt1 == /\ first
                /\ StartsAt(line, <<"i", "g">>, i + 1)
                /\ i + 4 <= Len(line)
                /\ line[i + 3] # "\n"
                /\ line[i + 4] = " "
                /\ n1 >= 1
        alt2 == /\ first
                /\ StartsAt(line, <<"i", "g", "u", "r", "e">>, i + 1)
                /\ StartsAt(line, <<" ">>, i + 6 + ns)
                /\ n2 >= 1
    IN  IF alt1
        THEN [start |-> i, stop |-> i + 5 + n1,
              index |-> SubSeq(line, i + 5, i + 4 + n1)]
        ELSE IF alt2
        THEN [start |-> i, stop |-> i + 7 + ns + n2,
              index |-> SubSeq(line, i + 7 + ns, i + 6 + ns + n2)]
        ELSE NoMatch

\* .*\\hline$ matches from position p: no line break up to a \hline that ends the
\* string or stands before its final line break
HlineAhead(line, p) ==
    \E j \in p..Len(line) :
        /\ StartsAt(line, HLINE, j)
        /\ \/ j + Len(HLINE) = Len(line) + 1
           \/ j + Len(HLINE) = Len(line) /\ line[Len(line)] = "\n"
        /\ \A q \in p..(j - 1) : line[q] # "\n"

\* the table pattern without its negative lookahead: [Tt]able (\d+)
tablePattern_no_lookahead(line, i) ==
    LET n == CharRun(line, Digits, i + 6)
    IN  IF /\ i <= Len(line)
           /\ line[i] \in {"T", "t"}
           /\ StartsAt(line, <<"a", "b", "l", "e", " ">>, i + 1)
           /\ n >= 1
        THEN [start |-> i, stop |-> i + 6 + n, index |-> SubSeq(line, i + 6, i + 5 + n)]
        ELSE NoMatch

\* tablePattern = [Tt]able (\d+)(?!.*\\hline$), matched at position i: (\d+) is
\* greedy and gives digits back until the lookahead lets the match through
tablePattern(line, i) ==
    LET n == CharRun(line, Digits, i + 6)
        ks == { k \in 1..n : ~HlineAhead(line, i + 6 + k) }
        k == CHOOSE x \in ks : \A y \in ks : y <= x
    IN  IF /\ i <= Len(line)
           /\ line[i] \in {"T", "t"}
           /\ StartsAt(line, <<"a", "b", "l", "e", " ">>, i + 1)
           /\ ks # {}
        THEN [start |-> i, stop |-> i + 6 + k, index |-> SubSeq(line, i + 6, i + 5 + k)]
        ELSE NoMatch

\* pattern.match(line, pos): the compiled pattern named by `pattern`
re_match(pattern, line, i) ==
    IF pattern = "figPattern" THEN figPattern(line, i) ELSE tablePattern(line, i)

RECURSIVE FindIterFrom(_, _, _)
FindIterFrom(pattern, line, i) ==
    LET at == { j \in i..Len(line) : re_match(pattern, line, j) # NoMatch }
        m == re_match(pattern, line, Least(at))
    IN  IF at = {} THEN <<>>
        ELSE <<m>> \o FindIterFrom(pattern, line, m.stop)

\* re.finditer(pattern, line): the non-overlapping matches, left to right
re_finditer(pattern, line) == FindIterFrom(pattern, line, 1)

\* a variant that cuts the text before the match at its first boundary
snipSentence_first_piece(line, m) ==
    LET before == str_split(SubSeq(line, 1, m.start - 1), SENTENCE_SEP)
        after == str_split(SubSeq(line, m.stop, Len(line)), SENTENCE_SEP)
    IN  before[1] \o SubSeq(line, m.start, m.stop - 1) \o after[1]

\* snipSentence(line, m)
snipSentence(line, m) ==
    LET before == str_split(SubSeq(line, 1, m.start - 1), SENTENCE_SEP)
        after == str_split(SubSeq(line, m.stop, Len(line)), SENTENCE_SEP)
        sentenceBefore == before[Len(before)]
        sentenceAfter == after[1]
    IN  sentenceBefore \o SubSeq(line, m.start, m.stop - 1) \o sentenceAfter

\* A dict is a sequence of entries [key, val] in insertion order.
DictKeys(d) == { d[i].key : i \in 1..Len(d) }
DictGet(d, k) == d[CHOOSE i \in 1..Len(d) : d[i].key = k].val

\* d[k] = v: a new key goes to the end, an old key keeps its place
DictSet(d, k, v) ==
    IF k \in DictKeys(d)
    THEN [i \in 1..Len(d) |-> IF d[i].key = k THEN [key |-> k, val |-> v] ELSE d[i]]
    ELSE Append(d, [key |-> k, val |-> v])

\* mentions[key].append(text) on a defaultdict(list)
DictAppend(d, k, text) ==
    DictSet(d, k, IF k \in DictKeys(d) THEN Append(DictGet(d, k), text) ELSE <<text>>)

\* {**a, **b}
DictMerge(a, b) ==
    LET F[i \in 0..Len(b)] == IF i = 0 THEN a ELSE DictSet(F[i - 1], b[i].key, b[i].val)
    IN  F[Len(b)]

\* the inner loop of extractImageNamesAndMentions over the matches of one line
MentionsOfLine(mentions, line, pattern, identifier) ==
    LET ms == re_finditer(pattern, line)
        F[i \in 0..Len(ms)] ==
            IF i = 0 THEN mentions
            ELSE DictAppend(F[i - 1], identifier \o ms[i].index, snipSentence(line, ms[i]))
    IN  F[Len(ms)]

\* extractImageNamesAndMentions(allLines, pattern, identifier)
extractImageNamesAndMentions(allLines, pattern, identifier) ==
    LET F[i \in 0..Len(allLines)] ==
            IF i = 0 THEN <<>>
            ELSE MentionsOfLine(F[i - 1], allLines[i], pattern, identifier)
    IN  F[Len(allLines)]

(***************************************************************************)
(* Files.  A text file is its content, one str; readlines cuts it after    *)
(* every line break.  NoFile is the content of a path that does not exist. *)
(***************************************************************************)
NoFile == <<"<no file>">>

\* readlines() of a file opened in text mode, from position i of its content: a line
\* ends at \n, \r\n or \r, each of which is read as \n (universal newlines)
RECURSIVE ReadLinesFrom(_, _)
ReadLinesFrom(content, i) ==
    LET ends == { j \in i..Len(content) : content[j] \in {"\n", "\r"} }
        j == Least(ends)
        k == IF content[j] = "\r" /\ j < Len(content) /\ content[j + 1] = "\n"
             THEN j + 1 ELSE j
    IN  IF i > Len(content) THEN <<>>
        ELSE IF ends = {} THEN <<SubSeq(content, i, Len(content))>>
        ELSE <<SubSeq(content, i, j - 1) \o <<"\n">>>> \o ReadLinesFrom(content, k + 1)

\* getLinesFromFile: f.readlines(), every line with its line break
getLinesFromFile(content) == ReadLinesFrom(content, 1)

\* sep.join(parts)
str_join(sep, parts) ==
    LET F[i \in 0..Len(parts)] ==
            IF i = 0 THEN <<>>
            ELSE IF i = 1 THEN parts[1]
            ELSE F[i - 1] \o sep \o parts[i]
    IN  F[Len(parts)]

(***************************************************************************)
(* scrapeCDS.py: the metadata file write_to_db writes.                     *)
(***************************************************************************)
L_PAPER_NAME == <<"P", "A", "P", "E", "R", " ", "N", "A", "M", "E", " ", ":">>
L_LAST_MOD == <<"L", "A", "S", "T", " ", "M", "O", "D", "I", "F", "I", "C", "A", "T", "I", "O", "N", " ", "D", "A", "T", "E", " ", ":">>
L_URL == <<"U", "R", "L", " ", ":", " ">>
L_COLLECTION == <<"C", "O", "L", "L", "E", "C", "T", "I", "O", "N", " ", ":", " ">>
L_TECH_REP == <<"T", "E", "C", "H", " ", "R", "E", "P", " ", "N", "U", "M", ":", " ">>
L_PLOT_LOC == <<"P", "L", "O", "T", " ", "L", "O", "C", ":", " ">>
S_None == <<"N", "o", "n", "e">>

\* str(x) as an f-string formats it: None becomes the text None
py_format(x) == IF x = None THEN S_None ELSE x

\* the content write_to_db writes to meta_info.txt
meta_info_content(title, last_modification_date, link, collection, tech_rep_num, plot_loc) ==
    L_PAPER_NAME \o <<" ">> \o str_replace(title, <<"\n">>, <<>>) \o <<"\n">>
    \o L_LAST_MOD \o <<" ">> \o last_modification_date \o <<"\n">>
    \o L_URL \o str_replace(link, <<"\n">>, <<>>) \o <<"\n">>
    \o L_COLLECTION \o str_replace(collection, <<" ">>, <<"_">>) \o <<"\n">>
    \o L_TECH_REP \o str_join(<<",", " ">>, tech_rep_num) \o <<"\n">>
    \o L_PLOT_LOC \o py_format(plot_loc) \o <<"\n">>

(***************************************************************************)
(* get_mentions.py: extractPaperName and process_directory.                *)
(***************************************************************************)
RECURSIVE PaperNameLines(_, _, _, _)
\* the loop of extractPaperName: the captured paperNameLines
PaperNameLines(metaLinesList, i, capture, acc) ==
    IF i > Len(metaLinesList) THEN acc
    ELSE LET line == metaLinesList[i]
             at == FindFrom(line, L_PAPER_NAME, 1)
         IN  IF at # 0
             THEN PaperNameLines(metaLinesList, i + 1, TRUE,
                      Append(acc, str_strip(SubSeq(line, at + Len(L_PAPER_NAME), Len(line)))))
             ELSE IF str_contains(line, L_LAST_MOD) /\ capture THEN acc
             ELSE IF capture
             THEN PaperNameLines(metaLinesList, i + 1, capture, Append(acc, str_strip(line)))
             ELSE PaperNameLines(metaLinesList, i + 1, capture, acc)

\* extractPaperName(metaLinesList)
extractPaperName(metaLinesList) ==
    LET paperNameLines == PaperNameLines(metaLinesList, 1, FALSE, <<>>)
    IN  IF paperNameLines = <<>> THEN None ELSE str_join(<<" ">>, paperNameLines)

\* atlusUrl = max(metaLinesList[-1].split(), key=len)
atlusUrl_of(metaLinesList) == max_by_len(str_split_ws(metaLinesList[Len(metaLinesList)]))

\* The records of `figures` hold the dict mentions_text itself, not a copy of it:
\* MentionsRef stands for that object, and json.dump writes what it holds then.
MentionsRef == "<mentions_text>"

\* a variant that stores a copy of mentions_text as it is when the record is made
figure_mentions_copy(mentions_text) == mentions_text

\* the value of a record's "mentions" field
figure_mentions(mentions_text) == MentionsRef

\* json.dump(figures): every reference written as the object's content at that time
json_dump(figures, mentions_text) ==
    [i \in 1..Len(figures) |->
        [figures[i] EXCEPT !.mentions = IF @ = MentionsRef THEN mentions_text ELSE @]]

(***************************************************************************)
(* scrapeCDS.py: get_plot_location and download_pdf.                       *)
(*                                                                         *)
(* A record page, as BeautifulSoup parses it, is the record                *)
(*   note        "absent": no td.formatRecordLabel with the text Note;     *)
(*               "orphan": such a td outside any tr; "row": one in a tr    *)
(*   noteLink    the first <a> of the Note row: NoTag when the row holds   *)
(*               none, else its href (None for an <a> without href)        *)
(*   anchors     the href (or None) of the page's other <a> tags, in       *)
(*               document order                                            *)
(*   ogImages    the content of the meta tags og:image and                 *)
(*               og:image:secure_url, in document order                    *)
(*   pdfUrl      the content of meta citation_pdf_url, None without the tag*)
(*   techReports the content of the meta tags citation_technical_report_   *)
(*               number                                                    *)
(*   paperStatus the HTTP status the candidate PAPERS URL answers with     *)
(*   pdfStatus   the HTTP status the PDF's URL answers with                *)
(*   modBox      the text of div.recordlastmodifiedbox, None without it    *)
(***************************************************************************)
HTTP_OK == 200
HTTP_NOT_FOUND == 404
NoTag == <<"<no tag>">>

ATLAS_PATTERN == <<"a", "t", "l", "a", "s", ".", "w", "e", "b", ".", "c", "e", "r", "n", ".", "c", "h", "/", "A", "t", "l", "a", "s">>
CMS_PATTERN == <<"c", "m", "s", "-", "r", "e", "s", "u", "l", "t", "s", ".", "w", "e", "b", ".", "c", "e", "r", "n", ".", "c", "h", "/", "c", "m", "s", "-", "r", "e", "s", "u", "l", "t", "s">>
CDS_PATTERN == <<"c", "d", "s", ".", "c", "e", "r", "n", ".", "c", "h", "/", "r", "e", "c", "o", "r", "d">>
S_Figure == <<"F", "i", "g", "u", "r", "e">>
S_PAPER == <<"P", "A", "P", "E", "R">>
PAPERS_BASE == <<"h", "t", "t", "p", "s", ":", "/", "/", "a", "t", "l", "a", "s", ".", "w", "e", "b", ".", "c", "e", "r", "n", ".", "c", "h", "/", "A", "t", "l", "a", "s", "/", "G", "R", "O", "U", "P", "S", "/", "P", "H", "Y", "S", "I", "C", "S", "/", "P", "A", "P", "E", "R", "S", "/">>

is_atlas_link(link) == str_contains(link, ATLAS_PATTERN)
is_cms_link(link) == str_contains(link, CMS_PATTERN)
is_cds_Figure_link(link) == str_contains(link, CDS_PATTERN) /\ str_contains(link, S_Figure)

\* soup.find('a', href=lambda href: href and test(href)): the places of the anchors
\* that have a non-empty href passing the test
AtlasAnchors(p) ==
    { i \in 1..Len(p.anchors) :
        p.anchors[i] # None /\ p.anchors[i] # <<>> /\ is_atlas_link(p.anchors[i]) }
CmsAnchors(p) ==
    { i \in 1..Len(p.anchors) :
        p.anchors[i] # None /\ p.anchors[i] # <<>> /\ is_cms_link(p.anchors[i]) }

\* figure_links: the og:image contents that are links to a CDS Figure
figure_links(p) ==
    SelectSeq(p.ogImages, LAMBDA c : is_cds_Figure_link(IF c = None THEN <<>> ELSE c))

\* pdf_url.split("/")[-1][:-4]
pdf_name_of(pdf_url) ==
    LET parts == str_split(pdf_url, <<"/">>)
        last == parts[Len(parts)]
    IN  SubSeq(last, 1, Len(last) - 4)

\* the candidate URL of the last probe of get_plot_location
maybe_url_of(pdf_name) ==
    PAPERS_BASE
    \o str_replace(str_replace(pdf_name, <<"A", "N", "A", "-">>, <<>>),
                   <<"-", "P", "A", "P", "E", "R", ".", "p", "d", "f">>, <<>>)

\* get_plot_location(soup, url)
get_plot_location(p, url) ==
    IF p.note = "row" /\ p.noteLink # NoTag THEN p.noteLink
    ELSE IF AtlasAnchors(p) # {} THEN p.anchors[Least(AtlasAnchors(p))]
    ELSE IF CmsAnchors(p) # {} THEN p.anchors[Least(CmsAnchors(p))]
    ELSE IF Len(figure_links(p)) > 0 THEN url
    ELSE IF /\ p.pdfUrl # None
            /\ str_contains(pdf_name_of(p.pdfUrl), S_PAPER)
            /\ p.paperStatus = HTTP_OK
         THEN maybe_url_of(pdf_name_of(p.pdfUrl))
    ELSE S_None

\* a variant that downloads the PDF whether or not the local file exists
download_pdf_always(p, url, paper_folder, overwrite, exists) ==
    LET full_path == paper_folder \o <<"/">> \o pdf_name_of(p.pdfUrl) \o <<".", "p", "d", "f">>
        ok == p.pdfStatus = HTTP_OK /\ p.raises # "pdf"
    IN  IF p.raises = "page" \/ p.pdfUrl = None
        THEN [path |-> None, tech_report_num |-> <<>>, plot_loc |-> S_None,
              pageRequests |-> 1, bodyRequests |-> 0, removed |-> FALSE,
              written |-> FALSE, exists |-> exists, raised |-> p.raises = "page"]
        ELSE [path |-> IF ok THEN full_path ELSE None,
              tech_report_num |-> SelectSeq(p.techReports, LAMBDA c : c # None /\ c # <<>>),
              plot_loc |-> get_plot_location(p, url),
              pageRequests |-> 1, bodyRequests |-> 1, removed |-> exists /\ overwrite,
              written |-> ok, exists |-> ok \/ (exists /\ ~overwrite),
              raised |-> p.raises = "pdf"]

\* download_pdf(url, paper_folder, overwrite), with `exists` telling whether
\* full_path exists when it is called.  Besides the three values returned (path,
\* tech_report_num, plot_loc) the result tells what the call did: the requests for
\* the record page and for the PDF body, whether it removed the local file, whether
\* it wrote it, and whether the file exists afterwards.  requests.get is called
\* outside any try: when the request for the record page (p.raises = "page") or the
\* one for the PDF (p.raises = "pdf") raises, the exception leaves download_pdf and
\* `raised` is TRUE; nothing is returned then, and path is None.
download_pdf(p, url, paper_folder, overwrite, exists) ==
    LET full_path == paper_folder \o <<"/">> \o pdf_name_of(p.pdfUrl) \o <<".", "p", "d", "f">>
        tech_report_num == SelectSeq(p.techReports, LAMBDA c : c # None /\ c # <<>>)
        plot_loc == get_plot_location(p, url)
        removed == exists /\ overwrite
    IN  IF p.raises = "page"
        THEN [path |-> None, tech_report_num |-> <<>>, plot_loc |-> S_None,
              pageRequests |-> 1, bodyRequests |-> 0, removed |-> FALSE,
              written |-> FALSE, exists |-> exists, raised |-> TRUE]
        ELSE IF p.pdfUrl = None
        THEN [path |-> None, tech_report_num |-> <<>>, plot_loc |-> S_None,
              pageRequests |-> 1, bodyRequests |-> 0, removed |-> FALSE,
              written |-> FALSE, exists |-> exists, raised |-> FALSE]
        ELSE IF exists /\ ~overwrite
        THEN [path |-> full_path, tech_report_num |-> tech_report_num,
              plot_loc |-> plot_loc,
              pageRequests |-> 1, bodyRequests |-> 0, removed |-> FALSE,
              written |-> FALSE, exists |-> TRUE, raised |-> FALSE]
        ELSE IF p.raises = "pdf"
        THEN [path |-> None, tech_report_num |-> tech_report_num,
              plot_loc |-> plot_loc,
              pageRequests |-> 1, bodyRequests |-> 1, removed |-> removed,
              written |-> FALSE, exists |-> FALSE, raised |-> TRUE]
        ELSE IF p.pdfStatus = HTTP_OK
        THEN [path |-> full_path, tech_report_num |-> tech_report_num,
              plot_loc |-> plot_loc,
              pageRequests |-> 1, bodyRequests |-> 1, removed |-> removed,
              written |-> TRUE, exists |-> TRUE, raised |-> FALSE]
        ELSE [path |-> None, tech_report_num |-> tech_report_num,
              plot_loc |-> plot_loc,
              pageRequests |-> 1, bodyRequests |-> 1, removed |-> removed,
              written |-> FALSE, exists |-> FALSE, raised |-> FALSE]

(***************************************************************************)
(* scrapeCDS.py: the functions write_to_db calls for one document.         *)
(***************************************************************************)
DigitChars == <<"0", "1", "2", "3", "4", "5", "6", "7", "8", "9">>
\* the value of a decimal digit
digit_value(c) ==
    IF c \in AsciiDigits THEN (CHOOSE v \in 1..10 : DigitChars[v] = c) - 1
    ELSE (CHOOSE v \in 1..10 : \E r \in 1..Len(DigitRuns) : DigitRuns[r][v] = c) - 1

\* int(s) of a run of digits, a leading blank allowed as int() allows it
RECURSIVE py_int(_)
py_int(s) ==
    IF s = <<>> THEN 0
    ELSE IF s[1] = " " THEN py_int(Tail(s))
    ELSE py_int(SubSeq(s, 1, Len(s) - 1)) * 10 + digit_value(s[Len(s)])

\* str(n) of an integer n >= 0
RECURSIVE py_str(_)
py_str(n) ==
    IF n < 10 THEN <<DigitChars[n + 1]>>
    ELSE py_str(n \div 10) \o <<DigitChars[(n % 10) + 1]>>

S_record == <<"r", "e", "c", "o", "r", "d", "/">>
S_CDS_Record == <<"C", "D", "S", "_", "R", "e", "c", "o", "r", "d", "_">>
S_Invalid_URL == <<"I", "n", "v", "a", "l", "i", "d", "_", "U", "R", "L">>

\* url_to_folder_name(url): re.search(r'record/(\d+)', url)
url_to_folder_name(url) ==
    LET hits == { i \in 1..Len(url) :
                    url[i] = "r" /\ StartsAt(url, S_record, i) /\ CharRun(url, Digits, i + 7) > 0 }
    IN  IF hits = {} THEN S_Invalid_URL
        ELSE LET i == Least(hits)
             IN  S_CDS_Record \o SubSeq(url, i + 7, i + 6 + CharRun(url, Digits, i + 7))

S_last_modified == <<"l", "a", "s", "t", " ", "m", "o", "d", "i", "f", "i", "e", "d">>
DUMMY_DATE == <<"2", "0", "0", "1", "-", "0", "1", "-", "0", "1">>

\* get_modification_date(url), given the text of div.recordlastmodifiedbox on the
\* page at url (None when the page has no such div)
get_modification_date(modBox) ==
    IF modBox = None THEN DUMMY_DATE
    ELSE LET parts == str_split(str_strip(modBox), S_last_modified)
         IN  str_strip(parts[Len(parts)])

\* number of days of month m in year y, as datetime checks it
days_in_month(y, m) ==
    IF m = 2 THEN (IF y % 4 = 0 /\ (y % 100 # 0 \/ y % 400 = 0) THEN 29 ELSE 28)
    ELSE IF m \in {4, 6, 9, 11} THEN 30
    ELSE 31

\* datetime.strptime(data_string, "%Y-%m-%d").  The format is the regular expression
\*   (?P<Y>\d\d\d\d)-(?P<m>1[0-2]|0[1-9]|[1-9])-(?P<d>3[0-1]|[1-2]\d|0[1-9]|[1-9]| [1-9])
\* matched at the start of the string; ValueError is raised when it does not match,
\* when text remains after the match, and when the numbers are no calendar date.
strptime(data_string) ==
    LET s == data_string
        at(i, cs) == i <= Len(s) /\ s[i] \in cs
        D19 == AsciiDigits \ {"0"}
        yOK == at(1, Digits) /\ at(2, Digits) /\ at(3, Digits) /\ at(4, Digits) /\ at(5, {"-"})
        mLen == IF at(6, {"1"}) /\ at(7, {"0", "1", "2"}) /\ at(8, {"-"}) THEN 2
                ELSE IF at(6, {"0"}) /\ at(7, D19) /\ at(8, {"-"}) THEN 2
                ELSE IF at(6, D19) /\ at(7, {"-"}) THEN 1
                ELSE 0
        dAt == 7 + mLen
        dLen == IF at(dAt, {"3"}) /\ at(dAt + 1, {"0", "1"}) THEN 2
                ELSE IF at(dAt, {"1", "2"}) /\ at(dAt + 1, Digits) THEN 2
                ELSE IF at(dAt, {"0"}) /\ at(dAt + 1, D19) THEN 2
                ELSE IF at(dAt, D19) THEN 1
                ELSE IF at(dAt, {" "}) /\ at(dAt + 1, D19) THEN 2
                ELSE 0
        matched == yOK /\ mLen > 0 /\ dLen > 0
        y == py_int(SubSeq(s, 1, 4))
        m == py_int(SubSeq(s, 6, 5 + mLen))
        d == py_int(SubSeq(s, dAt, dAt + dLen - 1))
    IN  IF ~matched \/ dAt + dLen - 1 # Len(s) THEN [raised |-> TRUE, date |-> <<0, 0, 0>>]
        ELSE IF y < 1 \/ d > days_in_month(y, m) THEN [raised |-> TRUE, date |-> <<0, 0, 0>>]
        ELSE [raised |-> FALSE, date |-> <<y, m, d>>]

\* datetime.__lt__ on the dates strptime returns
datetime_lt(a, b) ==
    \/ a[1] < b[1]
    \/ a[1] = b[1] /\ a[2] < b[2]
    \/ a[1] = b[1] /\ a[2] = b[2] /\ a[3] < b[3]

\* saved_date as write_to_db reads it from meta_info.txt: None without a line that
\* starts with LAST MODIFICATION DATE :
saved_date(meta) ==
    LET lines == getLinesFromFile(meta)
        hits == { i \in 1..Len(lines) : str_startswith(lines[i], L_LAST_MOD) }
    IN  IF hits = {} THEN None
        ELSE str_strip(str_split(lines[Least(hits)], <<":">>)[2])

\* a variant of the refresh decision that also refreshes on an equal date
updated_not_earlier(meta, last_modification_date) ==
    IF meta = NoFile \/ saved_date(meta) = None THEN [raised |-> FALSE, updated |-> TRUE]
    ELSE LET saved_date_dt == strptime(saved_date(meta))
             new_date_dt == strptime(last_modification_date)
         IN  IF saved_date_dt.raised \/ new_date_dt.raised
             THEN [raised |-> TRUE, updated |-> TRUE]
             ELSE [raised |-> FALSE,
                   updated |-> ~datetime_lt(new_date_dt.date, saved_date_dt.date)]

\* the refresh decision of write_to_db: `updated`, given the content of the
\* document's meta_info.txt (NoFile when there is none) and the date just fetched;
\* raised tells that strptime raised ValueError, which write_to_db does not catch
updated(meta, last_modification_date) ==
    IF meta = NoFile \/ saved_date(meta) = None THEN [raised |-> FALSE, updated |-> TRUE]
    ELSE LET saved_date_dt == strptime(saved_date(meta))
             new_date_dt == strptime(last_modification_date)
         IN  IF saved_date_dt.raised \/ new_date_dt.raised
             THEN [raised |-> TRUE, updated |-> TRUE]
             ELSE [raised |-> FALSE,
                   updated |-> datetime_lt(saved_date_dt.date, new_date_dt.date)]

S_ELLIPSIS == <<"[", ".", ".", ".", "]">>
S_LN_EN == <<"?", "l", "n", "=", "e", "n">>

\* get_paper_links(url), given the a.titlelink tags of the listing page at url, each
\* with its text (title) and href: the tags whose title holds [...] are left out and
\* a trailing ?ln=en is cut off the link
get_paper_links(listing) ==
    LET kept == SelectSeq(listing, LAMBDA t : ~str_contains(t.title, S_ELLIPSIS))
    IN  [paper_links |->
            [i \in 1..Len(kept) |->
                IF str_endswith(kept[i].href, S_LN_EN)
                THEN SubSeq(kept[i].href, 1, Len(kept[i].href) - 6)
                ELSE kept[i].href],
         paper_titles |-> [i \in 1..Len(kept) |-> kept[i].title]]

\* an optional page number: Python's None, or the int n
NonePage == [found |-> FALSE, page |-> 0]
SomePage(n) == [found |-> TRUE, page |-> n]

S_References == <<"R", "e", "f", "e", "r", "e", "n", "c", "e", "s">>
S_ACKNOWLEDGMENT == <<"A", "C", "K", "N", "O", "W", "L", "E", "D", "G", "M", "E", "N", "T">>

\* find_key_in_pdf(file, keyword), given what PyPDF2 makes of the file: whether it
\* can be read at all and the text extracted from each page.  The pages are scanned
\* from the last to the first; any exception is caught and gives None.
find_key_in_pdf(pdf, keyword) ==
    LET hits == { n \in 1..Len(pdf.pages) :
                    pdf.pages[n] # <<>> /\ str_contains(pdf.pages[n], keyword) }
    IN  IF ~pdf.readable \/ hits = {} THEN NonePage
        ELSE SomePage(CHOOSE n \in hits : \A k \in hits : k <= n)

\* a variant of min_of_list that takes the greatest value
min_of_list_greatest(values) ==
    LET filtered_values == SelectSeq(values, LAMBDA v : v.found)
        nums == { filtered_values[i].page : i \in 1..Len(filtered_values) }
    IN  IF filtered_values # <<>> THEN CHOOSE x \in nums : \A y \in nums : y <= x
        ELSE -1

\* min_of_list(values)
min_of_list(values) ==
    LET filtered_values == SelectSeq(values, LAMBDA v : v.found)
        nums == { filtered_values[i].page : i \in 1..Len(filtered_values) }
    IN  IF filtered_values # <<>> THEN Least(nums) ELSE -1

S_nougat == <<"n", "o", "u", "g", "a", "t">>
S_opt_o == <<"-", "o">>
S_opt_p == <<"-", "p">>

\* cmd of extract_text(file, output_directory, page_to_stop)
extract_text(file, output_directory, page_to_stop) ==
    <<S_nougat, file, S_opt_o, output_directory>>
    \o (IF page_to_stop # -1
        THEN <<S_opt_p, <<"1", "-">> \o py_str(page_to_stop)>>
        ELSE <<>>)

(***************************************************************************)
(* SpecText: preprocess_text applied to context strings built from         *)
(* fragments of markup.                                                    *)
(***************************************************************************)
MaxFrags == 2

TextFragments ==
    { <<"3", " ">>,
      PM_MACRO,
      BEGIN_ENV \o <<"{", "t", "}">>,
      <<"\\", "b", "\\", ",", "e", "g", "i", "n">>,
      <<"\\", ",">>,
      <<"\\", "a", "l", "p", "h", "a">>,
      <<"\\", "r", "m", " ", "G", "e", "V">>,
      <<"\\", "q", "q", "u", "a", "d">>,
      <<"x", "\n">> }

TextInputs ==
    UNION { { Concat(fs) : fs \in [1..n -> TextFragments] } : n \in 0..MaxFrags }

textVars == <<tin, tout, tcalled, tpc>>
mentionVars == <<folder, pd, written>>
fetchVars == <<page, pdfOnDisk, calls, plot>>
crawlVars == <<args, cw, disk, fail_file, doc, offsets>>
dirsVars == <<pds, tree>>
vars == <<textVars, mentionVars, fetchVars, crawlVars, dirsVars>>

\* the variables of the parts a specification does not run
TextIdle == tin = <<>> /\ tout = <<>> /\ tcalled = FALSE /\ tpc = "idle"
MentionsIdle == folder = [isdir |-> FALSE] /\ pd = [pc |-> "idle"] /\ written = <<>>
FetchIdle == page = <<>> /\ pdfOnDisk = FALSE /\ calls = <<>> /\ plot = <<>>
CrawlIdle ==
    /\ args = <<>> /\ cw = [pc |-> "idle"] /\ disk = <<>>
    /\ fail_file = <<>> /\ doc = <<>> /\ offsets = <<>>
DirsIdle == pds = [pc |-> "idle"] /\ tree = <<>>

InitText ==
    /\ tin \in TextInputs
    /\ tout = <<>>
    /\ tcalled = FALSE
    /\ tpc = "in"
    /\ MentionsIdle /\ FetchIdle /\ CrawlIdle /\ DirsIdle

\* one call preprocess_text(tin)
Preprocess ==
    /\ tpc = "in"
    /\ \E conv \in PandocOutcomes :
          LET r == preprocess_text(tin, conv)
          IN  /\ tout' = r.text
              /\ tcalled' = r.called
              /\ tpc' = IF r.raised THEN "raised" ELSE "out"
    /\ UNCHANGED <<tin, mentionVars, fetchVars, crawlVars, dirsVars>>

NextText == Preprocess

SpecText == InitText /\ [][NextText]_vars

\* The backslashes of s are exactly the starts of its \pm macros, and there is one.
OnlyPmMarkup(s) ==
    /\ \E i \in 1..Len(s) : s[i] = "\\"
    /\ \A i \in 1..Len(s) : s[i] = "\\" => StartsAt(s, PM_MACRO, i)

\* C9: preprocess_text substitutes first, then drops a text that still holds \begin,
\* then converts only if a backslash remains: an input whose only markup is \pm comes
\* back with the plus-minus sign, without a backslash and without the converter being
\* invoked; an input that holds \begin after the substitutions comes back empty,
\* again without the converter being invoked.
C9_PreprocessOrder ==
    tpc = "out" =>
        /\ OnlyPmMarkup(tin) =>
              /\ \E i \in 1..Len(tout) : tout[i] = PM
              /\ \A i \in 1..Len(tout) : tout[i] # "\\"
              /\ ~tcalled
        /\ str_contains(ApplyReplacements(tin, 1), BEGIN_ENV) =>
              /\ tout = <<>>
              /\ ~tcalled

\* a \pm-only input and an input whose \begin appears only after the substitutions
\* have both been processed
C9_Witness ==
    /\ tpc = "out"
    /\ \/ OnlyPmMarkup(tin) /\ Len(tin) > Len(PM_MACRO)
       \/ /\ ~str_contains(tin, BEGIN_ENV)
          /\ str_contains(ApplyReplacements(tin, 1), BEGIN_ENV)


(***************************************************************************)
(* SpecMentions: process_directory on one document folder.                 *)
(***************************************************************************)
MaxLines == 2

S_EXAMPLE == <<"A", "s", " ", "s", "h", "o", "w", "n", " ", "i", "n", " ", "F", "i", "g", ".", " ", "3", ",", " ", "t", "h", "e", " ", "c", "r", "o", "s", "s", " ", "s", "e", "c", "t", "i", "o", "n", " ", "r", "i", "s", "e", "s", ".", " ", "O", "t", "h", "e", "r", " ", "t", "e", "x", "t", ".", "\n">>
S_EXAMPLE_CONTEXT == <<"A", "s", " ", "s", "h", "o", "w", "n", " ", "i", "n", " ", "F", "i", "g", ".", " ", "3", ",", " ", "t", "h", "e", " ", "c", "r", "o", "s", "s", " ", "s", "e", "c", "t", "i", "o", "n", " ", "r", "i", "s", "e", "s">>

\* a line that cites a figure and a table by numbers written with decimal digits of
\* other scripts (U+06F3, U+06F4, U+0663)
S_OTHER_DIGITS == <<"F", "i", "g", ".", " ", "۳", "۴", " ", "T", "a", "b", "l", "e", " ", "U+0663", "\n">>

\* the lines the text files are made of
TextLines ==
    { S_EXAMPLE,
      S_OTHER_DIGITS,
      <<"T", "a", "b", "l", "e", " ", "2", " ", "&", " ", "1", " ", "\\", "h", "l", "i", "n", "e", "\n">>,
      <<"S", "e", "e", " ", "T", "a", "b", "l", "e", " ", "1", ".", " ", "A", "l", "s", "o", " ", "F", "i", "g", "u", "r", "e", " ", "1", " ", "a", "n", "d", " ", "F", "i", "g", "s", " ", "2", ".", "\n">>,
      <<"x", ".", " ", "I", "n", " ", "T", "a", "b", "l", "e", " ", "1", "2", " ", "\\", "p", "m", " ", "3", ".", " ", "y", "\n">>,
      <<"F", "i", "g", "u", "r", "e", " ", "1", " ", "s", "h", "o", "w", "s", "\n">>,
      <<"A", ".", " ", "f", "i", "g", ".", " ", "1", " ", "i", "n", " ", "t", "a", "b", "l", "e", " ", "1", "2", "\\", "h", "l", "i", "n", "e">>,
      <<"T", "a", "b", "l", "e", " ", "2", " ", "\\", "h", "l", "i", "n", "e", " ", "x", "\n">>,
      <<"\\", "b", "e", "g", "i", "n", "{", "t", "}", " ", "T", "a", "b", "l", "e", " ", "3", "\n">>,
      <<"t", "a", "b", "l", "e", " ", "1", " ", "h", "e", "r", "e", "\n">> }

\* the contents of latex.txt: up to MaxLines lines
TextFiles ==
    UNION { { Concat(ls) : ls \in [1..n -> TextLines] } : n \in 0..MaxLines }

U_ATLAS == <<"h", "t", "t", "p", "s", ":", "/", "/", "a", "t", "l", "a", "s", ".", "w", "e", "b", ".", "c", "e", "r", "n", ".", "c", "h", "/", "A", "t", "l", "a", "s", "/", "G", "R", "O", "U", "P", "S", "/", "P", "H", "Y", "S", "I", "C", "S", "/", "P", "A", "P", "E", "R", "S", "/">>
U_RECORD == <<"h", "t", "t", "p", "s", ":", "/", "/", "c", "d", "s", ".", "c", "e", "r", "n", ".", "c", "h", "/", "r", "e", "c", "o", "r", "d", "/">>
S_TITLE == <<"A", " ", "s", "t", "u", "d", "y">>
S_COLLECTION == <<"A", "T", "L", "A", "S", " ", "P", "a", "p", "e", "r", "s">>
S_DATE_2001 == DUMMY_DATE
S_TECH_REP == <<"C", "E", "R", "N", "-", "E", "P", "-", "1">>

\* the plot locations a metadata file may hold: a URL, or the marker None
PlotLocValues == { S_None, U_ATLAS \o <<"X", "-", "1">>, U_RECORD \o <<"7">> }

\* the metadata files: the six lines the harvester writes, or a two-line file that
\* holds a paper name and the plot location
MetaFiles ==
    { meta_info_content(S_TITLE, S_DATE_2001, U_RECORD \o <<"7">>, S_COLLECTION,
                        <<S_TECH_REP>>, v) : v \in PlotLocValues }
    \cup { L_PAPER_NAME \o <<" ">> \o S_TITLE \o <<"\n">> \o L_PLOT_LOC \o v \o <<"\n">> :
             v \in PlotLocValues }

\* the output file: absent, or the records written to it
NoOutput == [exists |-> FALSE, records |-> <<>>]
\* an output file a former run has left
StaleOutput == [exists |-> TRUE, records |-> << [name |-> figIdentifier \o <<"9">>] >>]

S_FOLDER == <<"C", "D", "S", "_", "R", "e", "c", "o", "r", "d", "_", "7">>

\* os.path.join(a, b) of two POSIX paths
os_path_join(a, b) ==
    IF b # <<>> /\ b[1] = "/" THEN b
    ELSE IF a = <<>> \/ a[Len(a)] = "/" THEN a \o b
    ELSE a \o <<"/">> \o b

\* ensure_trailing_slash(path)
ensure_trailing_slash(path) == IF str_endswith(path, <<"/">>) THEN path ELSE path \o <<"/">>

\* the arguments of the extractor: the data directory and the default outputFile
S_DATA_DIR == <<"d", "a", "t", "a">>
outputFile == <<"f", "i", "g", "u", "r", "e", "s", "_", "a", "n", "d", "_", "t", "a", "b", "l", "e", "s", "_", "t", "e", "x", "t", ".", "j", "s", "o", "n">>
\* folderDir of the folder S_FOLDER of the data directory
S_FOLDER_DIR == os_path_join(ensure_trailing_slash(S_DATA_DIR), S_FOLDER)

InitMentions ==
    /\ folder \in
          { [isdir |-> FALSE, name |-> S_FOLDER, path |-> S_FOLDER_DIR,
             latex |-> NoFile, meta |-> NoFile, out |-> NoOutput] }
          \cup [isdir : {TRUE}, name : {S_FOLDER}, path : {S_FOLDER_DIR},
                latex : TextFiles \cup {NoFile},
                meta : MetaFiles \cup {NoFile},
                out : {NoOutput, StaleOutput}]
    /\ pd = [pc |-> "start"]
    /\ written = <<>>
    /\ TextIdle /\ FetchIdle /\ CrawlIdle /\ DirsIdle

\* process_directory up to its loop: the early returns, the two files read, the
\* paper name, atlusUrl and the mentions extracted.  `conversions` keeps, text by
\* text, what the external converter did in this call.
PDRead ==
    /\ pd.pc = "start"
    /\ IF ~folder.isdir \/ folder.latex = NoFile \/ folder.meta = NoFile
       THEN pd' = [pc |-> "returned"]
       ELSE LET latexLinesList == getLinesFromFile(folder.latex)
                metaLinesList == getLinesFromFile(folder.meta)
                figMentionDic ==
                    extractImageNamesAndMentions(latexLinesList, "figPattern", figIdentifier)
                tableMentionDic ==
                    extractImageNamesAndMentions(latexLinesList, "tablePattern", tableIdentifier)
            IN  pd' = [pc |-> "loop",
                       paperName |-> extractPaperName(metaLinesList),
                       atlusUrl |-> atlusUrl_of(metaLinesList),
                       figMentionDic |-> figMentionDic,
                       tableMentionDic |-> tableMentionDic,
                       combinedMentionDic |-> DictMerge(figMentionDic, tableMentionDic),
                       figures |-> <<>>,
                       mentions_text |-> <<>>,
                       converted |-> 0,
                       conversions |-> <<>>]
    /\ UNCHANGED <<folder, written, textVars, fetchVars, crawlVars, dirsVars>>

\* one iteration of `for key, texts in combinedMentionDic.items()`; an exception of
\* the converter that convert_latex_to_text does not catch ends process_directory
\* and, through it, the loop of process_directories
PDLoop ==
    /\ pd.pc = "loop"
    /\ Len(pd.figures) < Len(pd.combinedMentionDic)
    /\ LET key == pd.combinedMentionDic[Len(pd.figures) + 1].key
           texts == pd.combinedMentionDic[Len(pd.figures) + 1].val
           converted == { i \in 1..Len(texts) : invokes_converter(texts[i]) }
       IN  \E convs \in [converted -> PandocOutcomes] :
              LET rs == [i \in 1..Len(texts) |->
                            preprocess_text(texts[i],
                                            IF i \in converted THEN convs[i] ELSE "plain")]
                  texts_preprocessed == [i \in 1..Len(texts) |-> rs[i].text]
                  mt == DictSet(pd.mentions_text, key, texts_preprocessed)
              IN  IF \E i \in 1..Len(texts) : rs[i].raised
                  THEN /\ pd' = [pd EXCEPT !.pc = "raised"]
                       /\ pds' = IF pds.pc = "call" THEN [pds EXCEPT !.pc = "raised"] ELSE pds
                  ELSE /\ pd' = [pd EXCEPT
                           !.mentions_text = mt,
                           !.converted = @ + Cardinality({i \in 1..Len(texts) : rs[i].called}),
                           !.conversions = @ \o [i \in 1..Len(texts) |->
                                                   IF i \in converted THEN convs[i]
                                                   ELSE "not called"],
                           !.figures = Append(@,
                               [name |-> key,
                                mentions |-> figure_mentions(mt),
                                atlusUrl |-> pd.atlusUrl,
                                paper |-> folder.name,
                                paperName |-> pd.paperName])]
                       /\ pds' = pds
    /\ UNCHANGED <<folder, written, tree, textVars, fetchVars, crawlVars>>

\* a variant that adds the records to those of the output file found
write_output_appending(old, records) == [exists |-> TRUE, records |-> old.records \o records]

\* os.remove(outputFilePath) when it exists, then the records written to a new file
write_output(old, records) == [exists |-> TRUE, records |-> records]

\* after the loop: the old output file removed, the new one written
PDWrite ==
    /\ pd.pc = "loop"
    /\ Len(pd.figures) = Len(pd.combinedMentionDic)
    /\ folder' = [folder EXCEPT !.out = write_output(folder.out,
                                                      json_dump(pd.figures, pd.mentions_text))]
    /\ written' = Append(written, os_path_join(folder.path, outputFile))
    /\ pd' = [pd EXCEPT !.pc = "done"]
    /\ UNCHANGED <<textVars, fetchVars, crawlVars, dirsVars>>

NextMentions == PDRead \/ PDLoop \/ PDWrite

SpecMentions == InitMentions /\ [][NextMentions]_vars


\* ---- what the claims about the extractor speak of
Greatest(S) == CHOOSE x \in S : \A y \in S : y <= x
Range(f) == { f[i] : i \in DOMAIN f }
SumOver(f) ==
    LET F[i \in 0..Len(f)] == IF i = 0 THEN 0 ELSE F[i - 1] + f[i]
    IN  F[Len(f)]

\* process_directory has read the two files and extracted the mentions
HasRead == pd.pc \in {"loop", "done"}
TextLinesRead == getLinesFromFile(folder.latex)

\* the positions of the sentence boundaries (a period, then a space) of a line
Boundaries(line) == { j \in 1..(Len(line) - 1) : line[j] = "." /\ line[j + 1] = " " }

\* the context of a match as the claim states it: from just after the nearest
\* boundary that lies before the match (or the start of the line) up to the
\* nearest boundary that begins after the match (or the end of the line)
ExpectedContext(line, m) ==
    LET before == { j \in Boundaries(line) : j + 1 < m.start }
        after == { j \in Boundaries(line) : j >= m.stop }
    IN  SubSeq(line,
               IF before = {} THEN 1 ELSE Greatest(before) + 2,
               IF after = {} THEN Len(line) ELSE Least(after) - 1)

\* every citation of the lines, in line order and left to right: its key and the
\* context the claim gives it
ExpectedMentions(lines, pattern, identifier) ==
    Concat([l \in 1..Len(lines) |->
              LET ms == re_finditer(pattern, lines[l])
              IN  [i \in 1..Len(ms) |->
                     [key |-> identifier \o ms[i].index,
                      ctx |-> ExpectedContext(lines[l], ms[i])]]])

ContextsOf(expected, key) ==
    LET es == SelectSeq(expected, LAMBDA e : e.key = key)
    IN  [i \in 1..Len(es) |-> es[i].ctx]

MatchesExpected(dic, expected) ==
    /\ DictKeys(dic) = { expected[i].key : i \in 1..Len(expected) }
    /\ \A k \in DictKeys(dic) : DictGet(dic, k) = ContextsOf(expected, k)

\* C3: the context of every citation is the text of its line from just after the
\* nearest sentence boundary before the match (or the start of the line), through
\* the matched text, up to the nearest sentence boundary after it (or the end of
\* the line), collected under its key in order of appearance; the line "As shown
\* in Fig. 3, the cross section rises. Other text." gives "Figure 3" the context
\* "As shown in Fig. 3, the cross section rises".
C3_SnipSentence ==
    HasRead =>
        /\ MatchesExpected(pd.figMentionDic,
               ExpectedMentions(TextLinesRead, "figPattern", figIdentifier))
        /\ MatchesExpected(pd.tableMentionDic,
               ExpectedMentions(TextLinesRead, "tablePattern", tableIdentifier))
        /\ S_EXAMPLE \in Range(TextLinesRead) =>
              /\ figIdentifier \o <<"3">> \in DictKeys(pd.figMentionDic)
              /\ S_EXAMPLE_CONTEXT \in Range(DictGet(pd.figMentionDic, figIdentifier \o <<"3">>))

\* the example line alone has been read, and a line with boundaries on both sides
\* of a citation has been read
C3_Witness ==
    /\ HasRead
    /\ \/ /\ TextLinesRead = <<S_EXAMPLE>>
          /\ pd.figMentionDic = << [key |-> figIdentifier \o <<"3">>, val |-> <<S_EXAMPLE_CONTEXT>>] >>
       \/ \E l \in 1..Len(TextLinesRead) :
             \E m \in Range(re_finditer("tablePattern", TextLinesRead[l])) :
                /\ \E j \in Boundaries(TextLinesRead[l]) : j + 1 < m.start
                /\ \E j \in Boundaries(TextLinesRead[l]) : j >= m.stop
                /\ Len(TextLinesRead) = 2

\* the keys cited in the lines, and how often a key is cited
KeysOf(lines, pattern, identifier) ==
    UNION { { identifier \o m.index : m \in Range(re_finditer(pattern, line)) } :
              line \in Range(lines) }
AllKeys(lines) ==
    KeysOf(lines, "figPattern", figIdentifier)
    \cup KeysOf(lines, "tablePattern", tableIdentifier)
CiteCount(lines, key) ==
    SumOver([l \in 1..Len(lines) |->
        LET fs == re_finditer("figPattern", lines[l])
            ts == re_finditer("tablePattern", lines[l])
        IN  Cardinality({ i \in 1..Len(fs) : figIdentifier \o fs[i].index = key })
            + Cardinality({ i \in 1..Len(ts) : tableIdentifier \o ts[i].index = key })])

\* C4: the output of a document holds one record per distinct key of its text;
\* all its records carry the same mentions, which map every key of the document
\* to its normalized contexts (one per citation), and the same atlusUrl, paper and
\* paperName; the records differ in name only.
C4_RecordsShareMentions ==
    pd.pc = "done" =>
        LET recs == folder.out.records
            keys == AllKeys(TextLinesRead)
        IN  /\ Len(recs) = Cardinality(keys)
            /\ { recs[i].name : i \in 1..Len(recs) } = keys
            /\ \A i, j \in 1..Len(recs) :
                  /\ recs[i].mentions = recs[j].mentions
                  /\ recs[i].atlusUrl = recs[j].atlusUrl
                  /\ recs[i].paper = recs[j].paper
                  /\ recs[i].paperName = recs[j].paperName
            /\ \A i \in 1..Len(recs) :
                  /\ DictKeys(recs[i].mentions) = keys
                  /\ \A k \in keys :
                        LET raw == DictGet(pd.combinedMentionDic, k)
                            got == DictGet(recs[i].mentions, k)
                        IN  /\ Len(got) = CiteCount(TextLinesRead, k)
                            /\ Len(raw) = Len(got)
                            /\ \A n \in 1..Len(got) :
                                  \E conv \in PandocOutcomes :
                                     got[n] = preprocess_text(raw[n], conv).text

\* a document citing Figure 1 and Table 1, and nothing else, has been written
C4_Witness ==
    /\ pd.pc = "done"
    /\ Len(folder.out.records) = 2
    /\ folder.out.records[1].name = figIdentifier \o <<"1">>
    /\ folder.out.records[2].name = tableIdentifier \o <<"1">>
    /\ DictKeys(folder.out.records[1].mentions)
          = {figIdentifier \o <<"1">>, tableIdentifier \o <<"1">>}

\* the value of the PLOT LOC line that ends a metadata file
MetaLines == getLinesFromFile(folder.meta)
PlotLocOfMeta ==
    LET last == MetaLines[Len(MetaLines)]
    IN  SubSeq(last, Len(L_PLOT_LOC) + 1, Len(last) - 1)

\* C5: for a metadata file that ends with the line PLOT LOC: <value>, the atlusUrl
\* of the extractor is that value, whether it is a URL or the marker None.
C5_AtlusUrlIsPlotLoc ==
    (HasRead /\ str_startswith(MetaLines[Len(MetaLines)], L_PLOT_LOC)) =>
        pd.atlusUrl = PlotLocOfMeta

\* a line ends in \hline (before its line break, if it has one)
EndsInHline(line) ==
    str_endswith(IF str_endswith(line, <<"\n">>) THEN SubSeq(line, 1, Len(line) - 1) ELSE line,
                 HLINE)

\* where a line cites a table: Table or table, a space, a digit
TableCitesAt(line) ==
    { i \in 1..Len(line) :
        /\ line[i] \in {"T", "t"}
        /\ StartsAt(line, <<"a", "b", "l", "e", " ">>, i + 1)
        /\ i + 6 <= Len(line)
        /\ line[i + 6] \in Digits }
TableKeyAt(line, i) ==
    tableIdentifier \o SubSeq(line, i + 6, i + 5 + CharRun(line, Digits, i + 6))

\* the table keys cited on lines that do not end in \hline
OpenTableKeys(lines) ==
    UNION { { TableKeyAt(line, i) : i \in TableCitesAt(line) } :
              line \in { l \in Range(lines) : ~EndsInHline(l) } }

\* C10: a line that ends in \hline contributes no table mention: the table mentions
\* are exactly the table citations of the other lines; figure citations are
\* captured on every line, and the output holds a record for each figure key and
\* for each table key cited on a line not ending in \hline, and no other.
C10_HlineExcluded ==
    HasRead =>
        /\ SumOver([k \in 1..Len(pd.tableMentionDic) |-> Len(pd.tableMentionDic[k].val)])
              = SumOver([l \in 1..Len(TextLinesRead) |->
                    IF EndsInHline(TextLinesRead[l]) THEN 0
                    ELSE Cardinality(TableCitesAt(TextLinesRead[l]))])
        /\ DictKeys(pd.tableMentionDic) = OpenTableKeys(TextLinesRead)
        /\ pd.pc = "done" =>
              { folder.out.records[i].name : i \in 1..Len(folder.out.records) }
                 = KeysOf(TextLinesRead, "figPattern", figIdentifier)
                   \cup OpenTableKeys(TextLinesRead)

\* a document with one figure citation and one table citation on a line ending in
\* \hline has been written as one record, for the figure
C10_Witness ==
    /\ pd.pc = "done"
    /\ \E l \in Range(TextLinesRead) : EndsInHline(l) /\ TableCitesAt(l) # {}
    /\ Len(folder.out.records) = 1
    /\ folder.out.records[1].name = figIdentifier \o <<"1">>
    /\ Len(TextLinesRead) = 2


(***************************************************************************)
(* SpecFetch: get_plot_location once and download_pdf up to MaxCalls times *)
(* on the record page of one document, the source unchanged in between.    *)
(***************************************************************************)
MaxCalls == 3

U_DOC == U_RECORD \o <<"7">>
U_NOTE == <<"h", "t", "t", "p", "s", ":", "/", "/", "e", ".", "c", "h", "/", "n">>
U_OTHER == <<"h", "t", "t", "p", "s", ":", "/", "/", "e", ".", "c", "h", "/", "o">>
U_ATLAS_1 == U_ATLAS \o <<"X", "-", "1">>
U_CMS_1 == <<"h", "t", "t", "p", ":", "/", "/", "c", "m", "s", "-", "r", "e", "s", "u", "l", "t", "s", ".", "w", "e", "b", ".", "c", "e", "r", "n", ".", "c", "h", "/", "c", "m", "s", "-", "r", "e", "s", "u", "l", "t", "s", "/", "P", "1">>
U_FIGURE == U_RECORD \o <<"7", "/", "f", "i", "l", "e", "s", "/", "F", "i", "g", "u", "r", "e", "_", "0", "0", "1", ".", "p", "n", "g">>
U_IMAGE == <<"h", "t", "t", "p", "s", ":", "/", "/", "e", ".", "c", "h", "/", "i", ".", "p", "n", "g">>
U_PDF_PAPER == U_RECORD \o <<"7", "/", "f", "i", "l", "e", "s", "/", "A", "N", "A", "-", "E", "X", "O", "T", "-", "2", "0", "1", "9", "-", "0", "1", "-", "P", "A", "P", "E", "R", ".", "p", "d", "f">>
U_PDF_PLAIN == U_RECORD \o <<"7", "/", "f", "i", "l", "e", "s", "/", "a", ".", "p", "d", "f">>

\* the record pages: every combination of what the probes look at
Pages ==
    { p \in [note : {"absent", "orphan", "row"},
             noteLink : {NoTag, None, U_NOTE},
             anchors : { <<>>, <<U_OTHER>>, <<U_CMS_1>>,
                         <<None, U_OTHER, U_CMS_1, U_ATLAS_1>> },
             ogImages : { <<>>, <<U_IMAGE>>, <<U_IMAGE, U_FIGURE>> },
             pdfUrl : {None, U_PDF_PLAIN, U_PDF_PAPER},
             techReports : { <<S_TECH_REP>>, <<None, S_TECH_REP>> },
             paperStatus : {HTTP_OK, HTTP_NOT_FOUND},
             pdfStatus : {HTTP_OK, HTTP_NOT_FOUND},
             modBox : {None},
             raises : {"none"}] :
        /\ p.note # "row" => p.noteLink = NoTag
        /\ p.pdfUrl = None => p.pdfStatus = HTTP_NOT_FOUND
        /\ p.pdfUrl # U_PDF_PAPER => p.paperStatus = HTTP_NOT_FOUND }

InitFetch ==
    /\ page \in Pages
    /\ pdfOnDisk = FALSE
    /\ calls = <<>>
    /\ plot = NoTag
    /\ TextIdle /\ MentionsIdle /\ CrawlIdle /\ DirsIdle

\* get_plot_location(soup, url) on the page
Resolve ==
    /\ plot = NoTag
    /\ plot' = get_plot_location(page, U_DOC)
    /\ UNCHANGED <<page, pdfOnDisk, calls, textVars, mentionVars, crawlVars, dirsVars>>

\* one call download_pdf(url, paper_folder, overwrite)
Download ==
    /\ Len(calls) < MaxCalls
    /\ \E overwrite \in BOOLEAN :
          LET r == download_pdf(page, U_DOC, S_FOLDER, overwrite, pdfOnDisk)
          IN  /\ calls' = Append(calls, [overwrite |-> overwrite, existed |-> pdfOnDisk,
                                         result |-> r])
              /\ pdfOnDisk' = r.exists
    /\ UNCHANGED <<page, plot, textVars, mentionVars, crawlVars, dirsVars>>

NextFetch == Resolve \/ Download

SpecFetch == InitFetch /\ [][NextFetch]_vars

\* two calls in a row without overwrite, the page naming a PDF that can be fetched
TwiceNoOverwrite(i) ==
    /\ i + 1 <= Len(calls)
    /\ ~calls[i].overwrite
    /\ ~calls[i + 1].overwrite
    /\ page.pdfUrl # None
    /\ page.pdfStatus = HTTP_OK

\* what C2 says of the second call: the same path, the page fetched once, no
\* request for the PDF body, the local file neither removed nor written
SecondCallIdle(i) ==
    /\ calls[i].result.path = calls[i + 1].result.path
    /\ calls[i].result.path # None
    /\ calls[i + 1].result.pageRequests = 1
    /\ calls[i + 1].result.bodyRequests = 0
    /\ ~calls[i + 1].result.removed
    /\ ~calls[i + 1].result.written

\* C2 as stated: two calls of download_pdf in a row without overwrite on an
\* unchanged, reachable source return the same path and download the PDF body
\* exactly once in total, in the first call; the second call only fetches the page.
C2_ExactlyOneDownload ==
    \A i \in 1..Len(calls) :
        TwiceNoOverwrite(i) =>
            /\ SecondCallIdle(i)
            /\ calls[i].result.bodyRequests + calls[i + 1].result.bodyRequests = 1

\* C2 amended: the two calls return the same path and the second call only fetches
\* the page; the PDF body is downloaded exactly once in total, by the first call,
\* if the local file did not exist before the first call, and not at all if it did.
C2_AtMostOneDownload ==
    \A i \in 1..Len(calls) :
        TwiceNoOverwrite(i) =>
            /\ SecondCallIdle(i)
            /\ calls[i].result.bodyRequests = (IF calls[i].existed THEN 0 ELSE 1)
            /\ calls[i + 1].result.bodyRequests = 0

\* download_pdf has been called twice without overwrite, starting without the file,
\* and twice more with the file in place
C2_Witness ==
    /\ Len(calls) = 3
    /\ TwiceNoOverwrite(1) /\ ~calls[1].existed /\ calls[1].result.bodyRequests = 1
    /\ TwiceNoOverwrite(2) /\ calls[2].existed

\* the probes of get_plot_location, as the claim lists them
NoteProbe(p) == p.note = "row" /\ p.noteLink # NoTag
AtlasProbe(p) == \E i \in 1..Len(p.anchors) : p.anchors[i] # None /\ is_atlas_link(p.anchors[i])
CmsProbe(p) == \E i \in 1..Len(p.anchors) : p.anchors[i] # None /\ is_cms_link(p.anchors[i])
FigureProbe(p) == \E i \in 1..Len(p.ogImages) : is_cds_Figure_link(p.ogImages[i])
PaperProbe(p) ==
    /\ p.pdfUrl # None
    /\ str_contains(pdf_name_of(p.pdfUrl), S_PAPER)
    /\ p.paperStatus = HTTP_OK
FirstHref(p, Test(_)) ==
    p.anchors[Least({ i \in 1..Len(p.anchors) : p.anchors[i] # None /\ Test(p.anchors[i]) })]

\* the result is that of the first probe that succeeds, in the order of the claim
PlotLocationByPriority ==
    plot = IF NoteProbe(page) THEN page.noteLink
           ELSE IF AtlasProbe(page) THEN FirstHref(page, is_atlas_link)
           ELSE IF CmsProbe(page) THEN FirstHref(page, is_cms_link)
           ELSE IF FigureProbe(page) THEN U_DOC
           ELSE IF PaperProbe(page) THEN maybe_url_of(pdf_name_of(page.pdfUrl))
           ELSE S_None

\* C7: get_plot_location returns the result of the first probe that succeeds, in
\* the order Note link, ATLAS link, CMS link, the document's URL for CDS figures, the
\* PAPERS URL that answers 200, else the marker None; the result is never absent.
C7_PlotLocationPriority ==
    plot # NoTag => (PlotLocationByPriority /\ plot # None)


(***************************************************************************)
(* SpecCrawl: write_to_db(args, overwrite) over a collection of two        *)
(* documents, run up to MaxRuns times on the same output directory.  What  *)
(* the servers, PyPDF2 and nougat answer is chosen when they are asked.    *)
(***************************************************************************)
MaxRuns == 2          \* runs of write_to_db on the same output directory
MaxResultPage == 2    \* the result set holds no listing page from this one on
MaxPdfPages == 2      \* pages of a PDF

\* a record whose number is written with the digit eight of another script (U+06F8)
U_DOC_8 == U_RECORD \o <<"۸">>
S_DB_DIR == <<"o", "u", "t">>
base_dir == S_DB_DIR \o <<"/">> \o str_replace(S_COLLECTION, <<" ">>, <<"_">>)

\* the a.titlelink tags the listing page of a result page can hold: two documents
\* and an entry with a truncated title on the first page, one document on each
\* later page, nothing from page MaxResultPage on
ListingsAt(result_page) ==
    LET t7 == [title |-> S_TITLE, href |-> U_DOC]
        t9 == [title |-> S_TITLE \o <<" ", "[", ".", ".", ".", "]">>, href |-> U_RECORD \o <<"9">>]
        t8 == [title |-> <<"B", "\n">>, href |-> U_DOC_8 \o S_LN_EN]
    IN  IF result_page >= MaxResultPage THEN { <<>> }
        ELSE IF result_page = 0 THEN { <<>>, <<t7, t9, t8>> }
        ELSE { <<>>, <<t8>> }

\* the texts div.recordlastmodifiedbox can hold
D_OCT_2 == <<"2", "0", "2", "4", "-", "1", "0", "-", "0", "2">>
D_FEB_3 == <<"2", "0", "2", "4", "-", "2", "-", "3">>
D_FEB_29 == <<"2", "0", "2", "3", "-", "0", "2", "-", "2", "9">>
\* October 3, the year written with the digits U+06F2, U+06F0, U+06F2, U+06F4
D_OCT_3 == <<"۲", "۰", "۲", "۴", "-", "1", "0", "-", "3">>
B_OCT_2 ==
    <<" ", "R", "e", "c", "o", "r", "d", " ", "c", "r", "e", "a", "t", "e", "d", " ">>
        \o DUMMY_DATE \o <<",", " ">> \o S_last_modified \o <<" ">> \o D_OCT_2 \o <<" ">>
ModBoxes ==
    { None,
      B_OCT_2,
      S_last_modified \o <<" ">> \o D_FEB_3,
      S_last_modified \o <<" ">> \o D_FEB_29,
      S_last_modified \o <<" ">> \o D_OCT_3 \o <<"U+2003">> }

\* the record pages a document's URL can answer with.  `raises` names the request
\* of this visit in which requests.get raises (no connection, a timeout): "date"
\* the one of get_modification_date, "page" and "pdf" those of download_pdf, "none"
\* when all are answered.
AnsweredPage ==
    [note |-> "absent", noteLink |-> NoTag, anchors |-> <<U_ATLAS_1>>, ogImages |-> <<>>,
     pdfUrl |-> U_PDF_PLAIN, techReports |-> <<S_TECH_REP>>,
     paperStatus |-> HTTP_NOT_FOUND, pdfStatus |-> HTTP_OK,
     modBox |-> S_last_modified \o <<" ">> \o D_FEB_3, raises |-> "none"]
CrawlPages ==
    { [AnsweredPage EXCEPT !.pdfUrl = u[1], !.pdfStatus = u[2], !.modBox = b] :
        u \in { <<None, HTTP_NOT_FOUND>>, <<U_PDF_PLAIN, HTTP_OK>>,
                <<U_PDF_PLAIN, HTTP_NOT_FOUND>> },
        b \in ModBoxes }
    \cup { [AnsweredPage EXCEPT !.raises = q] : q \in {"date", "page", "pdf"} }

\* the pages the URL link answers with in the visits of the crawl: any of them for
\* the first document, those that show the date of October 2 for the others
CrawlPagesOf(link) ==
    IF link = U_DOC THEN CrawlPages
    ELSE { p \in CrawlPages : p.modBox = B_OCT_2 }

\* what PyPDF2 can make of a PDF
PageTexts ==
    { <<>>, S_References, S_ACKNOWLEDGMENT \o <<"S">>,
      S_References \o <<"\n">> \o S_ACKNOWLEDGMENT }
PdfBodies ==
    { [readable |-> FALSE, pages |-> <<>>] }
    \cup { [readable |-> TRUE, pages |-> ps] :
             ps \in UNION { [1..n -> PageTexts] : n \in 0..MaxPdfPages } }

\* how subprocess.Popen(cmd) and process.wait() can end in extract_text: return
\* code 0, another return code, or an exception because nougat cannot be started
NougatOutcomes == {"ok", "error", "not started"}

\* a document folder: whether it exists, the content of meta_info.txt, whether the
\* PDF and document.mmd exist.  The .mmd file nougat writes is named after the PDF,
\* so document.mmd is a file write_to_db finds but never makes.
NoFolder == [dir |-> FALSE, meta |-> NoFile, pdf |-> FALSE, mmd |-> FALSE]
\* folders as something other than write_to_db can leave them: a meta_info.txt
\* without the date line, a document.mmd
ForeignMeta == L_PAPER_NAME \o <<" ">> \o S_TITLE \o <<"\n">>
InitFolders ==
    { NoFolder,
      [NoFolder EXCEPT !.dir = TRUE, !.meta = ForeignMeta],
      [NoFolder EXCEPT !.dir = TRUE, !.mmd = TRUE] }

Folders == { url_to_folder_name(U_DOC), url_to_folder_name(U_DOC_8) }

NoDoc ==
    [link |-> <<>>, last_modification_date |-> <<>>, saved_date |-> None,
     had_meta |-> FALSE, updated |-> TRUE, pdf_overwrite |-> FALSE, pdf_name |-> None,
     mmd_update |-> FALSE, found |-> <<>>, page_to_stop |-> -1, cmd |-> <<>>,
     pdf_removed |-> FALSE, meta_written |-> FALSE, mmd_removed |-> FALSE,
     pdf_readable |-> TRUE, nougat |-> "not run", fetch |-> "not called"]

InitCrawl ==
    /\ args \in [start : {0}, depth : {0, 1}, run_nougat : BOOLEAN, overwrite : {TRUE}]
    /\ cw = [pc |-> "page", run |-> 1, result_page |-> args.start,
             links |-> <<>>, titles |-> <<>>, k |-> 0, why |-> ""]
    /\ disk \in { f \in [Folders -> InitFolders] : f[url_to_folder_name(U_DOC_8)] = NoFolder }
    /\ fail_file = <<>>
    /\ doc = NoDoc
    /\ offsets = <<>>
    /\ TextIdle /\ MentionsIdle /\ FetchIdle /\ DirsIdle

\* fail_file.write(line) on failed_list.txt, opened for appending
fail_file_write(lines, line) == Append(lines, line)

\* the loop variables after the body of `for link, title in zip(links, titles)`:
\* the next document of the listing page, or the next listing page
NextDoc(c) ==
    IF c.k < Len(c.links) THEN [c EXCEPT !.pc = "doc", !.k = c.k + 1]
    ELSE [c EXCEPT !.pc = "page", !.result_page = c.result_page + 1,
                   !.links = <<>>, !.titles = <<>>, !.k = 0]

\* the head of `while get_more`: the depth test, the listing page, its links
CrawlListing ==
    /\ cw.pc = "page"
    /\ IF args.depth >= 0 /\ cw.result_page > args.depth
       THEN /\ cw' = [cw EXCEPT !.pc = "done", !.why = "depth"]
            /\ UNCHANGED offsets
       ELSE /\ offsets' = Append(offsets, cw.result_page * 10 + 1)
            /\ \/ \E listing \in ListingsAt(cw.result_page) :
                     LET r == get_paper_links(listing)
                     IN  cw' = IF r.paper_links = <<>>
                               THEN [cw EXCEPT !.pc = "done", !.why = "no links"]
                               ELSE [cw EXCEPT !.pc = "doc", !.links = r.paper_links,
                                               !.titles = r.paper_titles, !.k = 1]
               \/ \* get_paper_links: the exception of requests.get leaves write_to_db
                  cw' = [cw EXCEPT !.pc = "aborted"]
    /\ UNCHANGED <<args, disk, fail_file, doc, textVars, mentionVars, fetchVars, dirsVars>>

\* the loop body for one document, up to the writing of meta_info.txt: the refresh
\* decision, download_pdf, the failure list.  p is the record page the document's
\* URL answers with during this visit.  An exception of requests.get or of strptime
\* is caught nowhere: it leaves write_to_db, and the crawl ends there.
CrawlDoc ==
    /\ cw.pc = "doc"
    /\ \E link \in {cw.links[cw.k]}, title \in {cw.titles[cw.k]} :
       \E folder_name \in {url_to_folder_name(link)} :
       \E meta \in {disk[folder_name].meta} :
       \E p \in CrawlPagesOf(link) :
       \E last_modification_date \in {get_modification_date(p.modBox)} :
       \E u \in {updated(meta, last_modification_date)} :
       \E pdf_overwrite \in {IF args.overwrite /\ ~u.updated THEN FALSE ELSE args.overwrite} :
       \E r \in {download_pdf(p, link, base_dir \o <<"/">> \o folder_name, pdf_overwrite,
                              disk[folder_name].pdf)} :
       \E d \in {[NoDoc EXCEPT !.link = link,
                               !.last_modification_date = last_modification_date,
                               !.had_meta = meta # NoFile,
                               !.saved_date = IF meta = NoFile THEN None
                                              ELSE saved_date(meta),
                               !.updated = u.updated]} :
          IF p.raises = "date"
          THEN \* get_modification_date: the exception of requests.get leaves write_to_db
               /\ doc' = [NoDoc EXCEPT !.link = link]
               /\ cw' = [cw EXCEPT !.pc = "aborted"]
               /\ UNCHANGED <<disk, fail_file>>
          ELSE IF u.raised
          THEN \* ValueError leaves write_to_db
               /\ doc' = d
               /\ disk' = [disk EXCEPT ![folder_name].dir = TRUE]
               /\ cw' = [cw EXCEPT !.pc = "aborted"]
               /\ UNCHANGED fail_file
          ELSE IF r.raised
          THEN \* download_pdf: the exception of requests.get leaves write_to_db
               /\ doc' = [d EXCEPT !.pdf_overwrite = pdf_overwrite,
                                    !.pdf_removed = r.removed, !.fetch = "raised"]
               /\ disk' = [disk EXCEPT ![folder_name].dir = TRUE,
                                       ![folder_name].pdf = r.exists]
               /\ cw' = [cw EXCEPT !.pc = "aborted"]
               /\ UNCHANGED fail_file
          ELSE /\ doc' = [d EXCEPT !.pdf_overwrite = pdf_overwrite, !.pdf_name = r.path,
                                    !.pdf_removed = r.removed,
                                    !.meta_written = r.path # None
                                                     /\ (u.updated \/ args.overwrite),
                                    !.fetch = IF r.path = None THEN "no path" ELSE "path"]
               /\ IF r.path = None
                  THEN /\ fail_file' = fail_file_write(fail_file, link \o <<"\n">>)
                       /\ disk' = [disk EXCEPT ![folder_name].dir = TRUE,
                                               ![folder_name].pdf = r.exists]
                       /\ cw' = NextDoc(cw)
                  ELSE /\ fail_file' = fail_file
                       /\ disk' = [disk EXCEPT
                             ![folder_name].dir = TRUE,
                             ![folder_name].pdf = r.exists,
                             ![folder_name].meta =
                                 IF u.updated \/ args.overwrite
                                 THEN meta_info_content(title, last_modification_date,
                                                        link, S_COLLECTION,
                                                        r.tech_report_num, r.plot_loc)
                                 ELSE @]
                       /\ cw' = [cw EXCEPT !.pc = "extract"]
    /\ UNCHANGED <<args, offsets, textVars, mentionVars, fetchVars, dirsVars>>

\* the rest of the loop body: mmd_update, the page bound and the run of nougat.
\* pdf is what PyPDF2 makes of the document's PDF, outcome how the run of nougat
\* ends.  find_key_in_pdf and extract_text catch every exception themselves, and
\* extract_text only prints a return code that is not 0, so nothing reaches the
\* `except` of write_to_db and nothing is written to the failure list here.
CrawlExtract ==
    /\ cw.pc = "extract"
    /\ \E folder_name \in {url_to_folder_name(doc.link)} :
       \E mmd_update \in {IF disk[folder_name].mmd THEN args.run_nougat /\ args.overwrite
                          ELSE args.run_nougat} :
          IF mmd_update
          THEN \E pdf \in PdfBodies :
               \E last_page_num_References \in {find_key_in_pdf(pdf, S_References)} :
               \E last_page_num_acknowledgement \in {find_key_in_pdf(pdf, S_ACKNOWLEDGMENT)} :
               \E page_to_stop \in {min_of_list(<<last_page_num_References,
                                                  last_page_num_acknowledgement>>)} :
               \E cmd \in {extract_text(doc.pdf_name,
                                         base_dir \o <<"/">> \o folder_name \o <<"/">>,
                                         page_to_stop)} :
               \E outcome \in NougatOutcomes :
                  /\ doc' = [doc EXCEPT
                        !.mmd_update = TRUE,
                        !.mmd_removed = disk[folder_name].mmd,
                        !.pdf_readable = pdf.readable,
                        !.nougat = outcome,
                        !.found = <<last_page_num_References, last_page_num_acknowledgement>>,
                        !.page_to_stop = page_to_stop,
                        !.cmd = cmd]
                  /\ disk' = [disk EXCEPT ![folder_name].mmd = FALSE]
          ELSE UNCHANGED <<doc, disk>>
    /\ cw' = NextDoc(cw)
    /\ UNCHANGED <<args, fail_file, offsets, textVars, mentionVars, fetchVars, dirsVars>>

\* write_to_db is run again, with the same arguments, on what the last run left
CrawlRerun ==
    /\ cw.pc \in {"done", "aborted"}
    /\ cw.run < MaxRuns
    /\ cw' = [pc |-> "page", run |-> cw.run + 1, result_page |-> args.start,
              links |-> <<>>, titles |-> <<>>, k |-> 0, why |-> ""]
    /\ doc' = NoDoc
    /\ offsets' = <<>>
    /\ UNCHANGED <<args, disk, fail_file, textVars, mentionVars, fetchVars, dirsVars>>

NextCrawl == CrawlListing \/ CrawlDoc \/ CrawlExtract \/ CrawlRerun

SpecCrawl == InitCrawl /\ [][NextCrawl]_vars


\* the calendar date (year, month, day) a date text stands for, by hand; <<0, 0, 0>>
\* for a text that is no calendar date
CalendarOf(text) ==
    CASE text = DUMMY_DATE -> <<2001, 1, 1>>
      [] text = D_OCT_2 -> <<2024, 10, 2>>
      [] text = D_FEB_3 -> <<2024, 2, 3>>
      [] text = D_OCT_3 -> <<2024, 10, 3>>
      [] OTHER -> <<0, 0, 0>>
IsCalendarDate(text) == CalendarOf(text) # <<0, 0, 0>>
\* a number that grows with the calendar date
DayNumber(date) == date[1] * 372 + date[2] * 31 + date[3]

\* the refresh decision for the current document has been made
Decided == doc.link # <<>> /\ cw.pc # "aborted"
\* the document had a stored LAST MODIFICATION DATE when it was visited
HadStoredDate == doc.had_meta /\ doc.saved_date # None

\* C1: the refresh decision is true when the document has no stored LAST
\* MODIFICATION DATE (no meta_info.txt, or none with the date line); otherwise, the
\* stored and the fetched text being calendar dates, it is true iff the fetched
\* date is strictly later than the stored one.
C1_RefreshDecision ==
    Decided =>
        IF ~HadStoredDate THEN doc.updated
        ELSE /\ IsCalendarDate(doc.saved_date)
             /\ IsCalendarDate(doc.last_modification_date)
             /\ doc.updated <=>
                  (DayNumber(CalendarOf(doc.last_modification_date))
                     > DayNumber(CalendarOf(doc.saved_date)))

\* a document is visited whose stored date equals the date fetched, and the
\* decision is not to refresh
C1_Witness ==
    /\ Decided /\ HadStoredDate
    /\ cw.pc = "extract"
    /\ doc.saved_date = D_OCT_2
    /\ doc.last_modification_date = D_OCT_2
    /\ ~doc.updated

\* C6: a stored or fetched modification date that cannot be parsed as YYYY-MM-DD
\* makes the crawl skip that document only: the crawl does not abort, so the later
\* documents and listing pages are still processed.
C6_BadDateSkipsDocumentOnly ==
    (/\ doc.link # <<>>
     /\ HadStoredDate
     /\ ~IsCalendarDate(doc.saved_date) \/ ~IsCalendarDate(doc.last_modification_date))
        => cw.pc # "aborted"

\* the text of the page range 1..n, n < 10
RangeText(n) == <<"1", "-", DigitChars[n + 1]>>

\* C8: the page bound passed to nougat is the smaller of the page numbers found for
\* References and ACKNOWLEDGMENT, one that was not found being left out; it is -1
\* when neither was found, and then nougat is run without -p, else with -p 1-bound.
C8_PageBound ==
    doc.cmd # <<>> =>
        LET refs == doc.found[1]
            ack == doc.found[2]
            bound == IF ~refs.found /\ ~ack.found THEN -1
                     ELSE IF ~refs.found THEN ack.page
                     ELSE IF ~ack.found THEN refs.page
                     ELSE IF refs.page <= ack.page THEN refs.page ELSE ack.page
        IN  /\ doc.page_to_stop = bound
            /\ SubSeq(doc.cmd, 1, 4)
                 = <<S_nougat, doc.pdf_name, S_opt_o,
                     base_dir \o <<"/">> \o url_to_folder_name(doc.link) \o <<"/">>>>
            /\ IF bound = -1 THEN Len(doc.cmd) = 4
               ELSE /\ Len(doc.cmd) = 6
                    /\ doc.cmd[5] = S_opt_p
                    /\ doc.cmd[6] = RangeText(bound)

\* nougat has been run on a PDF with References on page 2 and ACKNOWLEDGMENT on
\* page 1, with the range 1-1
C8_Witness ==
    /\ doc.cmd # <<>>
    /\ doc.found = <<SomePage(2), SomePage(1)>>
    /\ doc.page_to_stop = 1
    /\ doc.cmd[6] = <<"1", "-", "1">>


\* the document at hand had a stored date and the date fetched is not strictly
\* later: the refresh decision was not to refresh
NotUpdated == Decided /\ HadStoredDate /\ ~doc.updated

\* C12: with overwrite requested, for a document whose fetched modification date
\* is not strictly later than its stored date, no existing artifact of the document
\* is removed, rewritten or regenerated: not the PDF, not meta_info.txt, not
\* document.mmd.
C12_NotUpdatedKeepsArtifacts ==
    (args.overwrite /\ NotUpdated) =>
        /\ ~doc.pdf_removed
        /\ ~doc.meta_written
        /\ ~doc.mmd_removed
        /\ ~doc.mmd_update

\* the page bound or the extraction has failed for the document at hand: its PDF
\* could not be read, nougat could not be started, or nougat ended with an error
ExtractionFailed == doc.mmd_update /\ (~doc.pdf_readable \/ doc.nougat # "ok")

\* C13: when computing the page bound or running the extraction tool fails for a
\* document, the document's URL is appended to the failure list and the crawl
\* goes on to the next document.
C13_ExtractionFailureListed ==
    ExtractionFailed =>
        /\ cw.pc \in {"doc", "page", "done"}
        /\ fail_file # <<>>
        /\ fail_file[Len(fail_file)] = doc.link \o <<"\n">>

\* a step of the loop body in which the fetch of the document fails: download_pdf
\* returns no path, or a request of download_pdf raises
FetchFails ==
    /\ cw.pc = "doc"
    /\ doc'.fetch \in {"no path", "raised"}

\* C14: when the fetch of a document fails, its URL is appended to the failure
\* list exactly once, its meta_info.txt is left as it is, no extraction is run for
\* it and the crawl continues with the next document or listing page; no step ever
\* removes or reorders the entries the failure list already holds.
C14_FetchFailureListedOnce ==
    [][/\ FetchFails =>
            /\ fail_file' = Append(fail_file, cw.links[cw.k] \o <<"\n">>)
            /\ disk'[url_to_folder_name(cw.links[cw.k])].meta
                 = disk[url_to_folder_name(cw.links[cw.k])].meta
            /\ ~doc'.mmd_update /\ doc'.cmd = <<>>
            /\ cw'.pc \in {"doc", "page"}
            /\ cw'.pc = "doc" => cw'.k = cw.k + 1
       /\ Len(fail_file) <= Len(fail_file')
       /\ SubSeq(fail_file', 1, Len(fail_file)) = fail_file]_vars

\* the crawl has ended with "Reached depth", no listing page having been empty
StoppedAtDepth == cw.pc = "done" /\ cw.why = "depth"

\* C16: a crawl started at page 0 with depth n >= 1 that stops at its depth has
\* requested exactly the n listing pages at offsets 1, 11, ..., 10*(n-1)+1, in order.
C16_DepthCountsPages ==
    (StoppedAtDepth /\ args.start = 0 /\ args.depth >= 1) =>
        offsets = [j \in 1..args.depth |-> 10 * (j - 1) + 1]

(***************************************************************************)
(* SpecDirs: process_directories(dataDir, outputDir, outputFile) over a    *)
(* data directory of up to MaxFolders entries, pass after pass, a text     *)
(* file possibly edited between two passes.  process_directory runs on the *)
(* entry at hand through PDRead, PDLoop and PDWrite.                       *)
(***************************************************************************)
MaxFolders == 2       \* entries of the data directory
MaxPasses == 2        \* runs of process_directories on the data directory

S_OUT_DIR == <<"o", "u", "t">>
S_FOLDER_8 == <<"C", "D", "S", "_", "R", "e", "c", "o", "r", "d", "_", "8">>
\* the names os.listdir(dataDir) can hold; it lists them in an arbitrary order
EntryNames == {S_FOLDER, S_FOLDER_8}

\* the contents of latex.txt in the data directory
T_SEE == <<"S", "e", "e", " ", "T", "a", "b", "l", "e", " ", "1", ".", " ", "A", "l", "s", "o", " ", "F", "i", "g", "u", "r", "e", " ", "1", " ", "a", "n", "d", " ", "F", "i", "g", "s", " ", "2", ".", "\n">>
T_SHOWS == <<"F", "i", "g", "u", "r", "e", " ", "1", " ", "s", "h", "o", "w", "s", "\r", "\n">>
T_PM == <<"x", ".", " ", "I", "n", " ", "T", "a", "b", "l", "e", " ", "1", "2", " ", "\\", "p", "m", " ", "3", ".", " ", "y", "\n">>
T_ALPHA == <<"F", "i", "g", ".", " ", "3", " ", "i", "s", " ", "\\", "a", "l", "p", "h", "a", ".", "\n">>
DirTexts == {T_SEE, T_SHOWS, T_PM, T_ALPHA, S_OTHER_DIGITS}
DirMeta ==
    meta_info_content(S_TITLE, S_DATE_2001, U_RECORD \o <<"7">>, S_COLLECTION,
                      <<S_TECH_REP>>, U_ATLAS \o <<"X", "-", "1">>)

\* what the entry called name can be: a plain file, a folder without latex.txt, a
\* document folder, with or without an output file of a former run
EntriesNamed(dataDir, name) ==
    { [isdir |-> FALSE, name |-> name, path |-> os_path_join(dataDir, name),
       latex |-> NoFile, meta |-> NoFile, out |-> NoOutput] }
    \cup [isdir : {TRUE}, name : {name}, path : {os_path_join(dataDir, name)},
          latex : DirTexts \cup {NoFile}, meta : {DirMeta}, out : {NoOutput, StaleOutput}]

InitDirs ==
    /\ \E outputDir \in {None, ensure_trailing_slash(S_OUT_DIR)} :
          pds = [pc |-> "next", pass |-> 1, i |-> 1,
                 dataDir |-> ensure_trailing_slash(S_DATA_DIR),
                 outputDirArg |-> outputDir, outputDir |-> outputDir,
                 edited |-> {}, before |-> <<>>,
                 conversions |-> [k \in 1..MaxFolders |-> <<>>]]
    /\ \E n \in 1..MaxFolders :
          tree \in { t \in [1..n -> UNION { EntriesNamed(ensure_trailing_slash(S_DATA_DIR), name) :
                                                name \in EntryNames }] :
                       \A j, k \in 1..n : j # k => t[j].name # t[k].name }
    /\ folder = [isdir |-> FALSE]
    /\ pd = [pc |-> "idle"]
    /\ written = <<>>
    /\ TextIdle /\ FetchIdle /\ CrawlIdle

\* one iteration of `for f in os.listdir(dataDir)` up to the call of
\* process_directory(folderDir, outputDir, outputFile)
DirsStep ==
    /\ pds.pc = "next"
    /\ pds.i <= Len(tree)
    /\ LET f == tree[pds.i].name
           folderDir == os_path_join(pds.dataDir, f)
       IN  /\ pds' = [pds EXCEPT !.pc = "call",
                                 !.outputDir = IF pds.outputDir = None THEN folderDir
                                               ELSE pds.outputDir \o f]
           /\ folder' = [tree[pds.i] EXCEPT !.path = folderDir]
    /\ pd' = [pc |-> "start"]
    /\ UNCHANGED <<tree, written, textVars, fetchVars, crawlVars>>

\* process_directory has returned: the next entry, or the end of the loop
DirsReturn ==
    /\ pds.pc = "call"
    /\ pd.pc \in {"returned", "done"}
    /\ tree' = [tree EXCEPT ![pds.i] = folder]
    /\ pds' = [pds EXCEPT !.pc = IF pds.i < Len(tree) THEN "next" ELSE "end",
                          !.i = pds.i + 1,
                          !.conversions[pds.i] = IF pd.pc = "done" THEN pd.conversions
                                                 ELSE <<>>]
    /\ pd' = [pc |-> "idle"]
    /\ UNCHANGED <<folder, written, textVars, fetchVars, crawlVars>>

\* between two passes the latex.txt of one document folder is replaced
DirsEdit ==
    /\ pds.pc = "end"
    /\ pds.pass < MaxPasses
    /\ pds.edited = {}
    /\ \E k \in 1..Len(tree), text \in DirTexts :
          /\ tree[k].isdir
          /\ tree[k].latex # NoFile
          /\ tree[k].latex # text
          /\ tree' = [tree EXCEPT ![k].latex = text]
          /\ pds' = [pds EXCEPT !.edited = {k}]
    /\ UNCHANGED <<mentionVars, textVars, fetchVars, crawlVars>>

\* process_directories is run again with the same arguments
DirsRerun ==
    /\ pds.pc = "end"
    /\ pds.pass < MaxPasses
    /\ pds' = [pds EXCEPT !.pc = "next", !.pass = pds.pass + 1, !.i = 1,
                          !.outputDir = pds.outputDirArg,
                          !.before = [k \in 1..Len(tree) |-> tree[k].out]]
    /\ UNCHANGED <<tree, mentionVars, textVars, fetchVars, crawlVars>>

NextDirs == DirsStep \/ PDRead \/ PDLoop \/ PDWrite \/ DirsReturn \/ DirsEdit \/ DirsRerun

SpecDirs == InitDirs /\ [][NextDirs]_vars


\* process_directory has just written the output file of the entry at hand
JustWritten == pds.pc = "call" /\ pd.pc = "done"

\* C11: the output file of every document folder processed in a pass is saved in
\* the sub-folder of the output directory named after the document's folder when an
\* output directory is given, and in the document's own input folder when none is.
C11_OutputFollowsOutputDir ==
    JustWritten =>
        written[Len(written)]
          = IF pds.outputDirArg = None
            THEN pds.dataDir \o tree[pds.i].name \o <<"/">> \o outputFile
            ELSE pds.outputDirArg \o tree[pds.i].name \o <<"/">> \o outputFile

\* the names of the records of an output file
RecordNames(out) == { out.records[j].name : j \in 1..Len(out.records) }

\* the folder at hand is processed again, its two input files as the former pass
\* read them, and the external converter has done with each text what it did with
\* it in the former pass
RerunUnchanged ==
    /\ JustWritten
    /\ pds.pass >= 2
    /\ pds.i \notin pds.edited
    /\ pd.conversions = pds.conversions[pds.i]

\* C15: the output file process_directory writes depends on the folder's current
\* text and metadata only: it holds exactly one record per key the current text
\* cites, whatever output file was there before, so a key that has left the text
\* leaves the output, and a pass over unchanged inputs, the external converter
\* answering as before, writes the output of the pass before.
C15_OutputRecomputed ==
    JustWritten =>
        /\ folder.out.exists
        /\ Len(folder.out.records) = Cardinality(AllKeys(TextLinesRead))
        /\ RecordNames(folder.out) = AllKeys(TextLinesRead)
        /\ RerunUnchanged => folder.out = pds.before[pds.i]

\* a second pass has rewritten the output of a folder whose text was replaced by
\* one that no longer cites a key the former output has a record of
C15_Witness ==
    /\ JustWritten
    /\ pds.pass = 2
    /\ pds.i \in pds.edited
    /\ pds.before[pds.i].exists
    /\ RecordNames(pds.before[pds.i]) \ RecordNames(folder.out) # {}
    /\ RecordNames(folder.out) # {}

=============================================================================
